---- MODULE Spec2Model ----
(***************************************************************************)
(* Azkura Auth: the vault engine (core/accounts.js, core/crypto.js,        *)
(* core/storage.js), the popup controller (popup/main.js) and the Drive    *)
(* client (core/google-drive.js) as a state machine.                       *)
(*                                                                         *)
(* Strings that the code inspects character by character (secrets,         *)
(* account labels) are sequences of one-character strings.  Passwords and  *)
(* tags, which the code only compares or hands to PBKDF2, are TLA+ strings.*)
(* AES-GCM and PBKDF2 are symbolic: a key is the pair (password, salt), a  *)
(* ciphertext opens only under the key and iv it was sealed with.          *)
(***************************************************************************)
EXTENDS Integers, Sequences, FiniteSets, TLC

\* ───── bounds ─────────────────────────────────────────────────────────────
\* number of ids generateId is asked for in one run
MaxIds == 2
\* longest account list the session may hold
MaxAccounts == 2

\* ───── JavaScript values ──────────────────────────────────────────────────
\* `undefined`: a key missing from a chrome.storage area
Undefined == "undefined"
\* `null`
Null == "null"
\* the empty string
EmptyStr == ""
\* two user PINs
Pin1 == "1234"
Pin2 == "4321"
Pins == {Pin1, Pin2}

\* JavaScript truthiness of a password argument (string, null or undefined)
Truthy(v) == v \notin {Null, Undefined, EmptyStr}

\* the values callers pass as `password`
PasswordArgs == {Null, Pin1}

\* ───── character level strings ────────────────────────────────────────────
\* /\s/ of the secret normalisation
IsWhitespace(c) == c \in {" "}

\* String.prototype.toUpperCase on one character
UpperChar(c) == CASE c = "a" -> "A" [] c = "b" -> "B" [] OTHER -> c

\* s.replace(/\s/g, '')
RECURSIVE StripWhitespace(_)
StripWhitespace(s) ==
  IF s = <<>> THEN <<>>
  ELSE IF IsWhitespace(Head(s)) THEN StripWhitespace(Tail(s))
       ELSE <<Head(s)>> \o StripWhitespace(Tail(s))

\* s.toUpperCase()
toUpperCase(s) == [i \in 1..Len(s) |-> UpperChar(s[i])]

\* secret.replace(/\s/g, '').toUpperCase()
normalizeSecret(s) == toUpperCase(StripWhitespace(s))

\* a stored secret is normalized: uppercase, no whitespace
IsNormalized(s) == \A i \in 1..Len(s) : ~IsWhitespace(s[i]) /\ UpperChar(s[i]) = s[i]

\* the Base32 alphabet of /^[A-Z2-7]+$/
Base32Alphabet ==
  { "A", "B", "C", "D", "E", "F", "G", "H", "I", "J", "K", "L", "M", "N", "O", "P", "Q",
    "R", "S", "T", "U", "V", "W", "X", "Y", "Z", "2", "3", "4", "5", "6", "7" }

\* shortest secret isValidSecret accepts
MinSecretLength == 8

\* clean.replace(/=+$/, '')
RECURSIVE StripPadding(_)
StripPadding(s) ==
  IF s # <<>> /\ s[Len(s)] = "=" THEN StripPadding(SubSeq(s, 1, Len(s) - 1)) ELSE s

\* isValidSecret(secret)
isValidSecret(secret) ==
  /\ secret # <<>>
  /\ LET clean == StripPadding(StripWhitespace(toUpperCase(secret)))
     IN /\ clean # <<>>
        /\ \A i \in 1..Len(clean) : clean[i] \in Base32Alphabet
        /\ Len(clean) >= MinSecretLength

\* what the add form of the popup holds when it is submitted: a short secret,
\* and two Base32 secrets typed in lowercase, one with a blank
FormInputs ==
  { [issuer |-> "", account |-> <<"A">>, secret |-> <<"a">>,
     algorithm |-> "SHA1", digits |-> 6, period |-> 30],
    [issuer |-> "", account |-> <<>>,
     secret |-> <<"a", "b", "a", "b", "a", "b", "a", "b">>,
     algorithm |-> "SHA1", digits |-> 6, period |-> 30],
    [issuer |-> "G", account |-> <<>>,
     secret |-> <<"a", "b", "a", "b", " ", "a", "b", "a", "b">>,
     algorithm |-> "SHA1", digits |-> 6, period |-> 30],
    [issuer |-> "", account |-> <<"A">>,
     secret |-> <<"a", "b", "a", "b", "a", "b", "a", "b">>,
     algorithm |-> "SHA1", digits |-> 6, period |-> 30] }

\* what a caller hands to addAccount: the options left out, or an empty
\* algorithm and zero digits next to a period
AccountInputs ==
  { [account |-> <<>>,    secret |-> <<"a", " ", "A">>],
    [account |-> <<"A">>, secret |-> <<"a">>,
     algorithm |-> "", digits |-> 0, period |-> 30] }

\* ───── crypto.js ──────────────────────────────────────────────────────────
\* getDefaultKey(): the string derived from the extension id, the user agent
\* and the screen size; the module memoises it, every call returns this value
DefaultKeyString == "default-key-b64"

\* outcomes of the randomBytes(16) and randomBytes(12) of one encrypt call
RandomDraws == { [salt |-> "salt1", iv |-> "iv1"], [salt |-> "salt2", iv |-> "iv2"] }

\* the text of the error decrypt throws
CryptoError == "Incorrect PIN/password or corrupted data"

\* password || await getDefaultKey()
effectivePassword(password) == IF Truthy(password) THEN password ELSE DefaultKeyString

\* three UTF-16 code units: the byte order mark U+FEFF, a surrogate without
\* its pair, and the replacement character U+FFFD
ByteOrderMark == "<FEFF>"
LoneSurrogate == "<D800>"
ReplacementChar == "<FFFD>"

\* enc.encode(text): the UTF-8 bytes, kept here as the characters they encode.
\* An unpaired surrogate is encoded as U+FFFD.  A text JSON.stringify returned
\* opens with a bracket and holds no unpaired surrogate (it escapes them).
TextEncode(text) ==
  IF text = <<>> \/ text[1] \in {"[", "{"} THEN text
  ELSE [i \in 1..Len(text) |-> IF text[i] = LoneSurrogate THEN ReplacementChar ELSE text[i]]

\* dec.decode(bytes) of a TextDecoder made with no options: a leading byte
\* order mark is dropped
TextDecode(bytes) ==
  IF bytes # <<>> /\ bytes[1] = ByteOrderMark THEN Tail(bytes) ELSE bytes

\* two passwords that differ in an unpaired surrogate
SurrogatePasswords == {"pw<D800>", "pw<DC00>"}

\* enc.encode(password)
EncodePassword(password) ==
  IF password \in SurrogatePasswords THEN "pw<FFFD>" ELSE password

\* PBKDF2(password, salt, 310000, SHA-256) -> AES-256 key
deriveKey(password, salt) == <<EncodePassword(password), salt>>

\* AES-GCM seal of plaintext under key and iv
AesGcmSeal(key, iv, plaintext) == [key |-> key, iv |-> iv, pt |-> plaintext]

\* encrypt(plaintext, password) with the two random draws made explicit
encrypt(plaintext, password, salt, iv) ==
  [ salt       |-> salt,
    iv         |-> iv,
    ciphertext |-> AesGcmSeal(deriveKey(effectivePassword(password), salt), iv,
                              TextEncode(plaintext)),
    version    |-> 1 ]

\* crypto.subtle.decrypt succeeds: the key and iv are the ones the bundle was sealed with
DecryptOk(bundle, password) ==
  /\ bundle.ciphertext.key = deriveKey(effectivePassword(password), bundle.salt)
  /\ bundle.ciphertext.iv = bundle.iv

\* decrypt(bundle, password) when it does not throw
decrypt(bundle, password) == TextDecode(bundle.ciphertext.pt)

\* the name of the DOMException atob throws
InvalidCharacterError == "InvalidCharacterError"

\* a string that is no Base64 text
MalformedBase64 == "#"

\* atob(b64) does not throw: b64 is the Base64 text of some bytes.  A missing
\* field reads as undefined, which atob takes as the text "undefined"
IsBase64(b64) ==
  b64 \in {d.salt : d \in RandomDraws} \cup {d.iv : d \in RandomDraws} \cup {EmptyStr}


\* the bundle encrypt returns: all four fields, nothing in clear
IsBundle(v) ==
  /\ DOMAIN v = {"salt", "iv", "ciphertext", "version"}
  /\ DOMAIN v.ciphertext = {"key", "iv", "pt"}

\* hashPin(pin, salt): PBKDF2 bits of the PIN under the salt
hashPin(pin, salt) == [pin |-> EncodePassword(pin), salt |-> salt]

\* a verifyPin that compares the salts and forgets the PIN
verifyPin_saltOnly(pin, storedHash, storedSalt) ==
  hashPin(pin, storedSalt).salt = storedHash.salt

\* verifyPin(pin, storedHash, storedSalt)
verifyPin(pin, storedHash, storedSalt) == hashPin(pin, storedSalt) = storedHash

\* setupPin(pin) with its random salt made explicit
setupPin(pin, salt) == [hash |-> hashPin(pin, salt), salt |-> salt]

\* ───── JSON ───────────────────────────────────────────────────────────────
\* JSON.stringify of one account object
StringifyAccount(a) ==
  <<"{">> \o <<"id", a.id>> \o <<"account", a.account>> \o <<"secret", a.secret>>
    \o <<"algorithm", a.algorithm>> \o <<"digits", a.digits>> \o <<"period", a.period>>
    \o <<"}">>

\* number of tokens of one account object
AccountTokens == 14

\* JSON.stringify of an array of account objects
RECURSIVE StringifyItems(_)
StringifyItems(accounts) ==
  IF accounts = <<>> THEN <<>>
  ELSE StringifyAccount(Head(accounts)) \o StringifyItems(Tail(accounts))

JSONstringify(accounts) == <<"[">> \o StringifyItems(accounts) \o <<"]">>

\* a JSON text that parses to an object, not an array
NonArrayText == <<"{", "}">>

\* Array.isArray(JSON.parse(text))
ParsesToArray(text) == Len(text) >= 2 /\ text[1] = "[" /\ text[Len(text)] = "]"

\* a parser that reads the values of `account` and `secret` into each other
ParseAccount_swapped(tokens) ==
  [ id |-> tokens[3], account |-> tokens[7], secret |-> tokens[5],
    algorithm |-> tokens[9], digits |-> tokens[11], period |-> tokens[13] ]

\* JSON.parse of one account object
ParseAccount(tokens) ==
  [ id |-> tokens[3], account |-> tokens[5], secret |-> tokens[7],
    algorithm |-> tokens[9], digits |-> tokens[11], period |-> tokens[13] ]

\* JSON.parse of the items of an array of account objects
RECURSIVE ParseItems(_)
ParseItems(tokens) ==
  IF Len(tokens) < AccountTokens THEN <<>>
  ELSE <<ParseAccount(SubSeq(tokens, 1, AccountTokens))>>
         \o ParseItems(SubSeq(tokens, AccountTokens + 1, Len(tokens)))

JSONparse(text) == ParseItems(SubSeq(text, 2, Len(text) - 1))

\* the defaults of an account's options
DefaultAlgorithm == "SHA1"
DefaultDigits == 6
DefaultPeriod == 30

\* ───── backup files ───────────────────────────────────────────────────────
\* the application tag of a backup file
AppTag == "azkura-auth"

\* accounts as a backup file carries them: secrets as written by whoever made
\* the file, and an id made at another time or place, which generateId, built
\* on Date.now() and Math.random(), does not produce again
IncomingAccounts ==
  { [id |-> 0, account |-> <<"A">>, secret |-> <<"A">>,
     algorithm |-> "SHA1", digits |-> 6, period |-> 30],
    [id |-> 0, account |-> <<>>,    secret |-> <<"a">>,
     algorithm |-> "SHA1", digits |-> 6, period |-> 30] }

\* the account arrays of the backups a user may pick: none, one account, two
\* different accounts, one account twice
IncomingLists ==
  { <<>> } \cup { <<a>> : a \in IncomingAccounts }
  \cup { << [id |-> 0, account |-> <<"A">>, secret |-> <<"A">>,
              algorithm |-> "SHA1", digits |-> 6, period |-> 30],
             [id |-> 0, account |-> <<>>,    secret |-> <<"a">>,
              algorithm |-> "SHA1", digits |-> 6, period |-> 30] >>,
          \* a payload with the same account twice
          << [id |-> 0, account |-> <<>>,    secret |-> <<"a">>,
              algorithm |-> "SHA1", digits |-> 6, period |-> 30],
             [id |-> 0, account |-> <<>>,    secret |-> <<"a">>,
              algorithm |-> "SHA1", digits |-> 6, period |-> 30] >> }

\* a property name every object inherits from Object.prototype ('constructor',
\* 'toString', ...), which generateId never returns: no account has it as id
InheritedName == -1

\* the id sequences handed to reorderAccounts: empty, a permutation, one id
\* only, one id twice, an inherited property name
OrderedIdLists == { <<>>, <<1>>, <<2, 1>>, <<1, 1>>, <<InheritedName>> }

\* the account arrays sealed in the backup files: one account, and two
BackupLists == { l \in IncomingLists : l # <<>> /\ l[1].account # <<>> }

\* JSON.parse(jsonString) of the files a user may pick: not JSON at all, the
\* backup of another application, and Azkura backups sealed under Pin1 that
\* hold an account array or something else
BackupFiles ==
  { [isJson |-> FALSE] }
  \cup { [isJson |-> TRUE, app |-> "other-app",
          encrypted |-> encrypt(JSONstringify(<<>>), Pin1, "salt1", "iv1")] }
  \cup { [isJson |-> TRUE, app |-> AppTag,
          encrypted |-> encrypt(text, Pin1, "salt1", "iv1")] :
          text \in { JSONstringify(l) : l \in BackupLists } \cup {NonArrayText} }

\* the `updates` objects handed to updateAccount: any subset of the fields; a
\* secret as typed or empty, possibly an id other than the target's
ValidUpdates ==
  { [secret |-> <<"a", " ", "A">>],
    [id |-> 1, account |-> <<"A">>] }

\* ───── google-drive.js ─────────────────────────────────────────────────────
\* JSON.stringify(backupData) of uploadBackupToDrive: the application tag, the
\* account count and, under "accounts", the array it was handed
DriveFileContent(accountsData) ==
  <<"{", "app", AppTag, "accountCount", Len(accountsData), "accounts">>
    \o JSONstringify(accountsData) \o <<"}">>

\* number of tokens of a Drive backup file before the value of its last field
DriveHeaderTokens == 6

\* ───── storage.js ─────────────────────────────────────────────────────────
\* keys of chrome.storage.local
LocalKeys == {"vault", "pinData", "googleAuthToken", "googleUserProfile"}
\* keys of chrome.storage.session
SessionKeys == {"accounts", "pendingQR"}

\* A storage area is a function from the keys it holds to their values; a key
\* it does not hold reads as `undefined`.
\* chrome.storage.<area>.clear()
ClearedStore == [k \in {} |-> Undefined]

\* chrome.storage.<area>.set({[key]: value})
StoreSet(store, key, value) ==
  [k \in DOMAIN store \cup {key} |-> IF k = key THEN value ELSE store[k]]

\* chrome.storage.<area>.remove(key)
StoreRemove(store, key) == [k \in DOMAIN store \ {key} |-> store[k]]

\* result[key] of chrome.storage.<area>.get is not undefined
Has(store, key) == key \in DOMAIN store

VARIABLES
  local,              \* chrome.storage.local
  session,            \* chrome.storage.session
  sync,               \* chrome.storage.sync
  nextId,             \* number of ids generateId has produced
  lastCall,           \* the last completed call: its name, its error, its result
  lastPw,             \* password of the last completed mutating call
  view,               \* the view the popup shows, "closed" when it is not open
  currentPassword,    \* popup: the PIN held in memory, null for the default key
  currentAccounts,    \* popup: the account list it renders
  alarm,              \* the 'auto-lock' alarm is scheduled
  driveBody,          \* file content of the last upload request sent to Drive
  calls,              \* the addAccount call in flight in the popup and in the scanner tab
  exported            \* the last export: its list, its password and the file it returned

\* the state of the popup, of the service worker and of the Drive endpoint
appVars == <<sync, view, currentPassword, currentAccounts, alarm, driveBody, calls, exported>>

vars == <<local, session, sync, nextId, lastCall, lastPw,
          view, currentPassword, currentAccounts, alarm, driveBody, calls, exported>>

\* isUnlocked(): Array.isArray(session accounts)
isUnlocked == Has(session, "accounts")

\* isFirstTimeSetup()
isFirstTimeSetup == ~Has(local, "pinData") /\ ~Has(local, "vault")

\* getAccounts(): accounts || []
getAccounts == IF Has(session, "accounts") THEN session["accounts"] ELSE <<>>

\* ───── accounts.js helpers ────────────────────────────────────────────────
\* no error
NoError == "none"
NotFoundError == "Account not found"
NotJsonError == "Invalid backup file: not valid JSON"
NotBackupError == "Invalid backup file: not an Azkura Auth backup"
CorruptedError == "Invalid backup: corrupted account data"
NotArrayError == "Invalid backup: accounts data is not an array"

\* record of a completed call: the function, what it was given, the message
\* of the error it threw (NoError when it returned) and what it returned
Call(op, arg, err, ret) == [op |-> op, arg |-> arg, err |-> err, ret |-> ret]

\* generateId(): the n-th id; Date.now() and Math.random() make every id new
generateId(n) == nextId + n

\* a lookup that falls on the last account when the id is missing
FindIndex_lastOnMiss(accounts, id) ==
  IF \E i \in 1..Len(accounts) : accounts[i].id = id
  THEN CHOOSE i \in 1..Len(accounts) :
         accounts[i].id = id /\ \A j \in 1..(i-1) : accounts[j].id # id
  ELSE Len(accounts)

\* accounts.findIndex(a => a.id === id), 0 for -1
FindIndex(accounts, id) ==
  IF \E i \in 1..Len(accounts) : accounts[i].id = id
  THEN CHOOSE i \in 1..Len(accounts) :
         accounts[i].id = id /\ \A j \in 1..(i-1) : accounts[j].id # id
  ELSE 0

\* accounts.filter(a => keep(a))
RECURSIVE FilterIdNot(_, _)
FilterIdNot(accounts, id) ==
  IF accounts = <<>> THEN <<>>
  ELSE IF Head(accounts).id # id
       THEN <<Head(accounts)>> \o FilterIdNot(Tail(accounts), id)
       ELSE FilterIdNot(Tail(accounts), id)

\* map[id] of Object.fromEntries(accounts.map(a => [a.id, a])): the last entry wins
LastWithId(accounts, id) ==
  accounts[CHOOSE i \in 1..Len(accounts) :
             accounts[i].id = id /\ \A j \in (i+1)..Len(accounts) : accounts[j].id # id]

\* the id of an entry that has none
NoId == -2

\* what the session store keeps of a function value: an entry that is no
\* account, without id, label or secret
FunctionEntry ==
  [id |-> NoId, account |-> <<>>, secret |-> <<>>, algorithm |-> "", digits |-> 0, period |-> 0]

\* orderedIds.map(id => map[id]).filter(Boolean): map is a plain object, so
\* map[id] is the account with that id, else the function the object inherits
\* under that name (truthy, kept by the filter), else undefined (dropped)
RECURSIVE MapIds(_, _)
MapIds(orderedIds, accounts) ==
  IF orderedIds = <<>> THEN <<>>
  ELSE IF \E i \in 1..Len(accounts) : accounts[i].id = Head(orderedIds)
       THEN <<LastWithId(accounts, Head(orderedIds))>> \o MapIds(Tail(orderedIds), accounts)
       ELSE IF Head(orderedIds) = InheritedName
       THEN <<FunctionEntry>> \o MapIds(Tail(orderedIds), accounts)
       ELSE MapIds(Tail(orderedIds), accounts)

\* a.secret + a.account
DedupKey(a) == a.secret \o a.account

\* new Set(existing.map(a => a.secret + a.account))
ExistingKeys(existing) == { DedupKey(existing[i]) : i \in 1..Len(existing) }

\* a filter that also adds each key it lets through to the set, so that an
\* incoming account is dropped when an earlier incoming one has its key
RECURSIVE FilterNew_dedupsIncoming(_, _)
FilterNew_dedupsIncoming(incoming, existingIds) ==
  IF incoming = <<>> THEN <<>>
  ELSE IF DedupKey(Head(incoming)) \notin existingIds
       THEN <<Head(incoming)>>
            \o FilterNew_dedupsIncoming(Tail(incoming),
                                        existingIds \cup {DedupKey(Head(incoming))})
       ELSE FilterNew_dedupsIncoming(Tail(incoming), existingIds)

\* incoming.filter(a => !existingIds.has(a.secret + a.account))
RECURSIVE FilterNew(_, _)
FilterNew(incoming, existingIds) ==
  IF incoming = <<>> THEN <<>>
  ELSE IF DedupKey(Head(incoming)) \notin existingIds
       THEN <<Head(incoming)>> \o FilterNew(Tail(incoming), existingIds)
       ELSE FilterNew(Tail(incoming), existingIds)

\* an import that keeps the ids of the backup
WithNewIds_keepsIds(newAccounts) == newAccounts

\* newAccounts.map(a => ({...a, id: generateId()}))
WithNewIds(newAccounts) ==
  [i \in 1..Len(newAccounts) |-> [newAccounts[i] EXCEPT !.id = generateId(i)]]

\* [...existing, ...newAccounts.map(...)]
Merge(existing, incoming) ==
  existing \o WithNewIds(FilterNew(incoming, ExistingKeys(existing)))

\* a spread that lets the id inside updates replace the id of the target
ApplyUpdates_updatesWin(account, updates, id) ==
  LET spread == [k \in DOMAIN account \cup DOMAIN updates |->
                   IF k \in DOMAIN updates THEN updates[k] ELSE account[k]]
  IN IF "secret" \in DOMAIN updates /\ updates.secret # <<>>
     THEN [spread EXCEPT !.secret = normalizeSecret(updates.secret)]
     ELSE spread

\* {...accounts[index], ...updates, id} and the secret normalisation that follows
ApplyUpdates(account, updates, id) ==
  LET spread == [k \in DOMAIN account \cup DOMAIN updates |->
                   IF k \in DOMAIN updates THEN updates[k] ELSE account[k]]
      withId == [spread EXCEPT !.id = id]
  IN IF "secret" \in DOMAIN updates /\ updates.secret # <<>>
     THEN [withId EXCEPT !.secret = normalizeSecret(updates.secret)]
     ELSE withId

\* saveVault that forgets its password argument and seals under the default key
saveVault_ignoresPassword(hasAccounts, accounts, password, salt, iv) ==
  IF ~hasAccounts THEN local
  ELSE StoreSet(local, "vault", encrypt(JSONstringify(accounts), Null, salt, iv))

\* saveVault that keeps a readable copy of the list next to the blob
saveVault_keepsPlainCopy(hasAccounts, accounts, password, salt, iv) ==
  IF ~hasAccounts THEN local
  ELSE StoreSet(StoreSet(local, "vault", encrypt(JSONstringify(accounts), password, salt, iv)),
                "accounts", accounts)

\* saveVault(password) on the session list `accounts`, with encrypt's random draws
saveVault(hasAccounts, accounts, password, salt, iv) ==
  IF ~hasAccounts THEN local
  ELSE StoreSet(local, "vault", encrypt(JSONstringify(accounts), password, salt, iv))

\* ───── accounts.js: vault operations ──────────────────────────────────────
\* what the record of an unlockVault call keeps: the password, and whether the
\* call before it was lockVault on an unlocked vault
UnlockArg(password) ==
  [ password  |-> password,
    afterLock |-> lastCall.op = "lockVault" /\ lastCall.arg.had ]

\* unlockVault that publishes an empty list before it decrypts
unlockVault_clearsFirst(password) ==
  IF ~Has(local, "vault")
  THEN /\ session' = StoreSet(session, "accounts", <<>>)
       /\ lastCall' = Call("unlockVault", UnlockArg(password), NoError, <<>>)
  ELSE IF DecryptOk(local["vault"], password)
  THEN LET accounts == JSONparse(decrypt(local["vault"], password)) IN
       /\ session' = StoreSet(session, "accounts", accounts)
       /\ lastCall' = Call("unlockVault", UnlockArg(password), NoError, accounts)
  ELSE /\ session' = StoreSet(session, "accounts", <<>>)
       /\ lastCall' = Call("unlockVault", UnlockArg(password), CryptoError, Undefined)

\* unlockVault that returns [] on first run without populating the session
unlockVault_noFirstRun(password) ==
  IF ~Has(local, "vault")
  THEN /\ lastCall' = Call("unlockVault", UnlockArg(password), NoError, <<>>)
       /\ UNCHANGED session
  ELSE IF DecryptOk(local["vault"], password)
  THEN LET accounts == JSONparse(decrypt(local["vault"], password)) IN
       /\ session' = StoreSet(session, "accounts", accounts)
       /\ lastCall' = Call("unlockVault", UnlockArg(password), NoError, accounts)
  ELSE /\ lastCall' = Call("unlockVault", UnlockArg(password), CryptoError, Undefined)
       /\ UNCHANGED session

\* unlockVault(password)
unlockVault(password) ==
  IF ~Has(local, "vault")
  THEN /\ session' = StoreSet(session, "accounts", <<>>)
       /\ lastCall' = Call("unlockVault", UnlockArg(password), NoError, <<>>)
  ELSE IF DecryptOk(local["vault"], password)
  THEN LET accounts == JSONparse(decrypt(local["vault"], password)) IN
       /\ session' = StoreSet(session, "accounts", accounts)
       /\ lastCall' = Call("unlockVault", UnlockArg(password), NoError, accounts)
  ELSE /\ lastCall' = Call("unlockVault", UnlockArg(password), CryptoError, Undefined)
       /\ UNCHANGED session

\* lockVault that clears the local store together with the session store
lockVault_clearsLocal ==
  /\ session' = ClearedStore
  /\ local' = ClearedStore
  /\ lastCall' = Call("lockVault", [had |-> isUnlocked, accounts |-> getAccounts], NoError, Undefined)

\* lockVault()
lockVault ==
  /\ session' = ClearedStore
  /\ lastCall' = Call("lockVault", [had |-> isUnlocked, accounts |-> getAccounts], NoError, Undefined)
  /\ UNCHANGED local

\* the tail of every mutating operation: setSessionAccounts(list); saveVault(password)
WriteThrough(op, arg, list, password, ret) ==
  \E rnd \in RandomDraws :
    /\ session' = StoreSet(session, "accounts", list)
    /\ local' = saveVault(TRUE, list, password, rnd.salt, rnd.iv)
    /\ lastCall' = Call(op, arg, NoError, ret)

\* accountData.algorithm || 'SHA1'
StringOr(accountData, field, default) ==
  IF field \in DOMAIN accountData /\ accountData[field] # ""
  THEN accountData[field] ELSE default

\* accountData.digits || 6, accountData.period || 30: a missing field and 0 are falsy
NumberOr(accountData, field, default) ==
  IF field \in DOMAIN accountData /\ accountData[field] # 0
  THEN accountData[field] ELSE default

\* an addAccount that keeps the secret as typed
NewAccount_rawSecret(id, accountData) ==
  [ id        |-> id,
    account   |-> accountData.account,
    secret    |-> accountData.secret,
    algorithm |-> StringOr(accountData, "algorithm", DefaultAlgorithm),
    digits    |-> NumberOr(accountData, "digits", DefaultDigits),
    period    |-> NumberOr(accountData, "period", DefaultPeriod) ]

\* the account object addAccount builds
NewAccount(id, accountData) ==
  [ id        |-> id,
    account   |-> accountData.account,
    secret    |-> normalizeSecret(accountData.secret),
    algorithm |-> StringOr(accountData, "algorithm", DefaultAlgorithm),
    digits    |-> NumberOr(accountData, "digits", DefaultDigits),
    period    |-> NumberOr(accountData, "period", DefaultPeriod) ]

\* addAccount(accountData, password)
addAccount(accountData, password) ==
  LET account == NewAccount(generateId(1), accountData)
  IN WriteThrough("addAccount", accountData, Append(getAccounts, account), password, account)

\* deleteAccount(id, password)
deleteAccount(id, password) ==
  WriteThrough("deleteAccount", id, FilterIdNot(getAccounts, id), password, Undefined)

\* updateAccount(id, updates, password)
updateAccount(id, updates, password) ==
  LET accounts == getAccounts
      index == FindIndex(accounts, id)
  IN IF index = 0
     THEN /\ lastCall' = Call("updateAccount", id, NotFoundError, Undefined)
          /\ UNCHANGED <<local, session>>
     ELSE LET updated == ApplyUpdates(accounts[index], updates, id) IN
          WriteThrough("updateAccount", id, [accounts EXCEPT ![index] = updated],
                       password, updated)

\* reorderAccounts(orderedIds, password)
reorderAccounts(orderedIds, password) ==
  WriteThrough("reorderAccounts", orderedIds, MapIds(orderedIds, getAccounts), password, Undefined)

\* what the record of an importBackup call keeps: the parsed file and the
\* password given for it
ImportArg(backup, importPassword) == [backup |-> backup, importPassword |-> importPassword]

\* importBackup that saves the vault under vaultPassword before it validates
\* the decrypted payload
importBackup_savesFirst(backup, importPassword, vaultPassword) ==
  IF ~backup.isJson
  THEN /\ lastCall' = Call("importBackup", ImportArg(backup, importPassword), NotJsonError, Undefined)
       /\ UNCHANGED <<local, session>>
  ELSE IF backup.app # AppTag
  THEN /\ lastCall' = Call("importBackup", ImportArg(backup, importPassword), NotBackupError, Undefined)
       /\ UNCHANGED <<local, session>>
  ELSE IF ~DecryptOk(backup.encrypted, importPassword)
  THEN /\ lastCall' = Call("importBackup", ImportArg(backup, importPassword), CryptoError, Undefined)
       /\ UNCHANGED <<local, session>>
  ELSE IF ~ParsesToArray(decrypt(backup.encrypted, importPassword))
  THEN \E rnd \in RandomDraws :
         /\ lastCall' = Call("importBackup", ImportArg(backup, importPassword), CorruptedError, Undefined)
         /\ local' = saveVault(isUnlocked, getAccounts, vaultPassword, rnd.salt, rnd.iv)
         /\ UNCHANGED session
  ELSE LET importedAccounts == JSONparse(decrypt(backup.encrypted, importPassword))
           existing == getAccounts
           newAccounts == FilterNew(importedAccounts, ExistingKeys(existing))
           merged == Merge(existing, importedAccounts)
       IN \E rnd \in RandomDraws :
            /\ session' = StoreSet(session, "accounts", merged)
            /\ local' = saveVault(TRUE, merged, vaultPassword, rnd.salt, rnd.iv)
            /\ lastCall' = Call("importBackup", ImportArg(backup, importPassword), NoError,
                                [imported |-> Len(newAccounts), total |-> Len(merged)])

\* importBackup(jsonString, importPassword, vaultPassword)
importBackup(backup, importPassword, vaultPassword) ==
  IF ~backup.isJson
  THEN /\ lastCall' = Call("importBackup", ImportArg(backup, importPassword), NotJsonError, Undefined)
       /\ UNCHANGED <<local, session>>
  ELSE IF backup.app # AppTag
  THEN /\ lastCall' = Call("importBackup", ImportArg(backup, importPassword), NotBackupError, Undefined)
       /\ UNCHANGED <<local, session>>
  ELSE IF ~DecryptOk(backup.encrypted, importPassword)
  THEN /\ lastCall' = Call("importBackup", ImportArg(backup, importPassword), CryptoError, Undefined)
       /\ UNCHANGED <<local, session>>
  ELSE IF ~ParsesToArray(decrypt(backup.encrypted, importPassword))
  THEN /\ lastCall' = Call("importBackup", ImportArg(backup, importPassword), CorruptedError, Undefined)
       /\ UNCHANGED <<local, session>>
  ELSE LET importedAccounts == JSONparse(decrypt(backup.encrypted, importPassword))
           existing == getAccounts
           newAccounts == FilterNew(importedAccounts, ExistingKeys(existing))
           merged == Merge(existing, importedAccounts)
       IN \E rnd \in RandomDraws :
            /\ session' = StoreSet(session, "accounts", merged)
            /\ local' = saveVault(TRUE, merged, vaultPassword, rnd.salt, rnd.iv)
            /\ lastCall' = Call("importBackup", ImportArg(backup, importPassword), NoError,
                                [imported |-> Len(newAccounts), total |-> Len(merged)])

\* restoreFromDriveBackup(accountsData, vaultPassword)
restoreFromDriveBackup(isArray, accountsData, vaultPassword) ==
  IF ~isArray
  THEN /\ lastCall' = Call("restoreFromDriveBackup", Undefined, NotArrayError, Undefined)
       /\ UNCHANGED <<local, session>>
  ELSE LET existing == getAccounts
           newAccounts == FilterNew(accountsData, ExistingKeys(existing))
           merged == Merge(existing, accountsData)
       IN WriteThrough("restoreFromDriveBackup", accountsData, merged, vaultPassword,
                       [imported |-> Len(newAccounts), total |-> Len(merged)])

\* deleteAllAccounts(password)
deleteAllAccounts(password) ==
  WriteThrough("deleteAllAccounts", Undefined, <<>>, password, Undefined)

\* exportBackup that drops its password argument and seals under the default key
exportBackup_defaultKey(exportPassword, salt, iv) ==
  LET accounts == getAccounts
  IN [ isJson       |-> TRUE,
       app          |-> AppTag,
       accountCount |-> Len(accounts),
       encrypted    |-> encrypt(JSONstringify(accounts), Null, salt, iv) ]

\* exportBackup(exportPassword), with encrypt's random draws: the backup object
\* that JSON.parse gives back from the string it returns
exportBackup(exportPassword, salt, iv) ==
  LET accounts == getAccounts
  IN [ isJson       |-> TRUE,
       app          |-> AppTag,
       accountCount |-> Len(accounts),
       encrypted    |-> encrypt(JSONstringify(accounts), exportPassword, salt, iv) ]

\* wipeAllData()
wipeAllData ==
  /\ local' = ClearedStore
  /\ session' = ClearedStore
  /\ lastCall' = Call("wipeAllData", Undefined, NoError, Undefined)

\* no backup file was exported yet
NoExport == [accounts |-> <<>>, exportPassword |-> Null, backup |-> [isJson |-> FALSE]]

\* the two pages that call addAccount: the popup and the scanner tab
Contexts == {"popup", "scanner"}

\* a page with no call in flight; pc "closed" is a page that is not open
NoCall(pc) ==
  [ pc          |-> pc,
    accountData |-> [account |-> <<>>, secret |-> <<>>],
    password    |-> Null,
    accounts    |-> <<>>,
    hasAccounts |-> FALSE,
    account     |-> FunctionEntry ]

NoCalls == [c \in Contexts |-> NoCall(IF c = "popup" THEN "idle" ELSE "closed")]

\* ───── the vault engine driven through its API ────────────────────────────
Init ==
  /\ local = ClearedStore
  /\ session = ClearedStore
  /\ nextId = 0
  /\ lastCall = Call("none", Undefined, NoError, Undefined)
  /\ lastPw = Undefined
  /\ sync = ClearedStore
  /\ view = "closed"
  /\ currentPassword = Null
  /\ currentAccounts = <<>>
  /\ alarm = FALSE
  /\ driveBody = <<>>
  /\ calls = NoCalls
  /\ exported = NoExport

UnlockVault ==
  \E password \in PasswordArgs :
    /\ unlockVault(password)
    /\ UNCHANGED <<local, nextId, lastPw, appVars>>

LockVault ==
  /\ lockVault
  /\ UNCHANGED <<nextId, lastPw, appVars>>

AddAccount ==
  \E accountData \in AccountInputs, password \in PasswordArgs :
    /\ nextId < MaxIds
    /\ Len(getAccounts) < MaxAccounts
    /\ addAccount(accountData, password)
    /\ nextId' = nextId + 1
    /\ lastPw' = password
    /\ UNCHANGED appVars

DeleteAccount ==
  \E id \in 1..MaxIds, password \in PasswordArgs :
    /\ deleteAccount(id, password)
    /\ lastPw' = password
    /\ UNCHANGED <<nextId, appVars>>

DeleteAllAccounts ==
  \E password \in PasswordArgs :
    /\ deleteAllAccounts(password)
    /\ lastPw' = password
    /\ UNCHANGED <<nextId, appVars>>

UpdateAccount ==
  \E id \in 1..MaxIds, updates \in ValidUpdates, password \in PasswordArgs :
    /\ updateAccount(id, updates, password)
    /\ lastPw' = IF lastCall'.err = NoError THEN password ELSE lastPw
    /\ UNCHANGED <<nextId, appVars>>

ReorderAccounts ==
  \E orderedIds \in OrderedIdLists, password \in PasswordArgs :
    /\ reorderAccounts(orderedIds, password)
    /\ Len(getAccounts') <= MaxAccounts
    /\ lastPw' = password
    /\ UNCHANGED <<nextId, appVars>>

ImportBackup ==
  \E backup \in BackupFiles, importPassword \in PasswordArgs, vaultPassword \in PasswordArgs :
    /\ importBackup(backup, importPassword, vaultPassword)
    /\ Len(getAccounts') <= MaxAccounts
    /\ nextId' = nextId + (Len(getAccounts') - Len(getAccounts))
    /\ nextId' <= MaxIds
    /\ lastPw' = IF lastCall'.err = NoError THEN vaultPassword ELSE lastPw
    /\ UNCHANGED appVars

RestoreFromDriveBackup ==
  \/ \E vaultPassword \in PasswordArgs :
       /\ restoreFromDriveBackup(FALSE, <<>>, vaultPassword)
       /\ UNCHANGED <<nextId, lastPw, appVars>>
  \/ \E accountsData \in IncomingLists, vaultPassword \in PasswordArgs :
       /\ restoreFromDriveBackup(TRUE, accountsData, vaultPassword)
       /\ Len(getAccounts') <= MaxAccounts
       /\ nextId' = nextId + (Len(getAccounts') - Len(getAccounts))
       /\ nextId' <= MaxIds
       /\ lastPw' = vaultPassword
       /\ UNCHANGED appVars

WipeAllData ==
  /\ wipeAllData
  /\ lastPw' = Undefined
  /\ UNCHANGED <<nextId, appVars>>

ExportBackup ==
  \E exportPassword \in PasswordArgs, rnd \in {d \in RandomDraws : d.salt = "salt1"} :
    /\ lastCall' = Call("exportBackup", exportPassword, NoError,
                        exportBackup(exportPassword, rnd.salt, rnd.iv))
    /\ UNCHANGED <<local, session, nextId, lastPw, appVars>>

VaultNext ==
  \/ UnlockVault
  \/ LockVault
  \/ AddAccount
  \/ DeleteAccount
  \/ UpdateAccount
  \/ ReorderAccounts
  \/ ImportBackup
  \/ RestoreFromDriveBackup
  \/ DeleteAllAccounts
  \/ WipeAllData
  \/ ExportBackup

VaultSpec == Init /\ [][VaultNext]_vars

\* ───── storage.js and google-auth.js: application helpers ───────────────────
\* isPinSetup()
isPinSetup == Has(local, "pinData")

\* isPinEnabled(): the stored flag, or whether a PIN exists when it was never set
isPinEnabled == IF ~Has(sync, "pinEnabled") THEN isPinSetup ELSE sync["pinEnabled"]

\* isLoggedIn()
isLoggedIn == Has(local, "googleAuthToken") /\ Has(local, "googleUserProfile")

\* the handler's re-encryption of the vault: if (accounts) setLocalItem('vault',
\* encrypt(JSON.stringify(accounts), pin)), after setLocalItem('pinData', pinData)
ReEncrypt(pinData, pin, salt, iv) ==
  LET withPin == StoreSet(local, "pinData", pinData)
  IN IF Has(session, "accounts")
     THEN StoreSet(withPin, "vault", encrypt(JSONstringify(session["accounts"]), pin, salt, iv))
     ELSE withPin

\* getPreferences(): the default of autoLockMinutes
DefaultAutoLockMinutes == 5

\* prefs.autoLockMinutes: the stored preference, or the default
autoLockMinutes ==
  IF Has(sync, "autoLockMinutes") THEN sync["autoLockMinutes"] ELSE DefaultAutoLockMinutes

\* prefs.pinEnabled as getPreferences() reports it (default true)
prefsPinEnabled == IF Has(sync, "pinEnabled") THEN sync["pinEnabled"] ELSE TRUE

\* setupAutoLock(): whether an 'auto-lock' alarm is pending after the call;
\* chrome.alarms.create replaces a pending alarm of the same name, and with
\* mins = 0 the function returns before touching chrome.alarms
setupAutoLock(mins) == IF mins = 0 THEN alarm ELSE TRUE

\* resetAutoLock(): whether an 'auto-lock' alarm is pending after the call
resetAutoLock(mins) == IF mins > 0 THEN TRUE ELSE alarm

\* ───── popup/main.js, service-worker.js: the application ─────────────────────
\* The call record lastCall keeps the last call into the vault engine; handlers
\* that make none leave it alone.
\* init(): the popup document loads and picks its first view
PopupOpen ==
  /\ view = "closed"
  /\ IF isFirstTimeSetup
     THEN /\ view' = "onboarding"
          /\ UNCHANGED <<session, lastCall, currentPassword, currentAccounts, alarm>>
     ELSE IF isPinSetup /\ isPinEnabled /\ ~isUnlocked
     THEN /\ view' = "lock"
          /\ UNCHANGED <<session, lastCall, currentPassword, currentAccounts, alarm>>
     ELSE /\ currentPassword' = Null
          /\ IF ~isUnlocked
             THEN unlockVault(Null)
             ELSE UNCHANGED <<session, lastCall>>
          /\ IF isUnlocked'
             THEN /\ view' = "main"
                  /\ currentAccounts' = getAccounts'
                  /\ alarm' = IF isPinEnabled THEN setupAutoLock(autoLockMinutes) ELSE alarm
             ELSE /\ view' = "blank"
                  /\ UNCHANGED <<currentAccounts, alarm>>
  /\ UNCHANGED <<local, sync, nextId, lastPw, driveBody, calls, exported>>

\* the popup document is closed: its module state is gone
PopupClose ==
  /\ view # "closed"
  /\ view' = "closed"
  /\ currentPassword' = Null
  /\ currentAccounts' = <<>>
  /\ UNCHANGED <<local, session, sync, nextId, lastCall, lastPw, alarm, driveBody, calls, exported>>

\* #btnSkipPin
BtnSkipPin ==
  /\ view = "onboarding"
  /\ sync' = StoreSet(sync, "pinEnabled", FALSE)
  /\ currentPassword' = Null
  /\ unlockVault(Null)
  /\ IF lastCall'.err = NoError
     THEN view' = "main" /\ currentAccounts' = getAccounts'
     ELSE UNCHANGED <<view, currentAccounts>>
  /\ UNCHANGED <<local, nextId, lastPw, alarm, driveBody, calls, exported>>

\* the confirm keypad of the onboarding, given the PIN typed twice
OnboardConfirmPin ==
  \E pin \in Pins, rnd \in RandomDraws :
    /\ view = "onboarding"
    /\ local' = StoreSet(local, "pinData", setupPin(pin, rnd.salt))
    /\ sync' = StoreSet(sync, "pinEnabled", TRUE)
    /\ currentPassword' = pin
    /\ unlockVault(pin)
    /\ view' = "main"
    /\ currentAccounts' = getAccounts'
    /\ UNCHANGED <<nextId, lastPw, alarm, driveBody, calls, exported>>

\* the keypad of the lock screen
LockScreenPin ==
  \E pin \in Pins :
    /\ view = "lock"
    /\ IF ~Has(local, "pinData")
       THEN UNCHANGED <<session, lastCall, view, currentPassword, currentAccounts, alarm>>
       ELSE IF ~verifyPin(pin, local["pinData"].hash, local["pinData"].salt)
       THEN UNCHANGED <<session, lastCall, view, currentPassword, currentAccounts, alarm>>
       ELSE /\ currentPassword' = pin
            /\ unlockVault(pin)
            /\ IF lastCall'.err = NoError
               THEN /\ view' = "main" /\ currentAccounts' = getAccounts'
                    /\ alarm' = setupAutoLock(autoLockMinutes)
               ELSE UNCHANGED <<view, currentAccounts, alarm>>
    /\ UNCHANGED <<local, sync, nextId, lastPw, driveBody, calls, exported>>

\* #btnAddAccountSubmit with a form the handler accepts
BtnAddAccountSubmit ==
  \E form \in FormInputs :
    /\ view = "main"
    /\ isValidSecret(form.secret)
    /\ form.account # <<>> \/ form.issuer # ""
    /\ nextId < MaxIds
    /\ Len(getAccounts) < MaxAccounts
    /\ addAccount(form, currentPassword)
    /\ currentAccounts' = getAccounts'
    /\ alarm' = resetAutoLock(autoLockMinutes)
    /\ nextId' = nextId + 1
    /\ lastPw' = currentPassword
    /\ UNCHANGED <<sync, view, currentPassword, driveBody, calls, exported>>

\* #btnDeleteConfirm for the card of one rendered account
BtnDeleteConfirm ==
  \E i \in 1..Len(currentAccounts) :
    /\ view = "main"
    /\ deleteAccount(currentAccounts[i].id, currentPassword)
    /\ currentAccounts' = getAccounts'
    /\ alarm' = resetAutoLock(autoLockMinutes)
    /\ lastPw' = currentPassword
    /\ UNCHANGED <<sync, view, currentPassword, nextId, driveBody, calls, exported>>

\* #btnImportConfirm with a picked file and, as backup password, the one the
\* Azkura backups are sealed under: the handler rejects a file for its content
BtnImportConfirm ==
  \E backup \in BackupFiles, pw \in {Pin1} :
    /\ view = "main"
    /\ importBackup(backup, pw, currentPassword)
    /\ Len(getAccounts') <= MaxAccounts
    /\ nextId' = nextId + (Len(getAccounts') - Len(getAccounts))
    /\ nextId' <= MaxIds
    /\ IF lastCall'.err = NoError
       THEN currentAccounts' = getAccounts' /\ lastPw' = currentPassword
       ELSE UNCHANGED <<currentAccounts, lastPw>>
    /\ UNCHANGED <<sync, view, currentPassword, alarm, driveBody, calls, exported>>

\* #btnLockNow
BtnLockNow ==
  /\ view = "main"
  /\ lockVault
  /\ currentPassword' = Null
  /\ view' = "lock"
  /\ UNCHANGED <<sync, nextId, lastPw, currentAccounts, alarm, driveBody, calls, exported>>

\* #btnChangePinConfirm with a new PIN of four digits typed twice
BtnChangePinConfirm ==
  \E current \in Pins, newPinVal \in Pins, pinRnd \in RandomDraws, rnd \in RandomDraws :
    /\ view = "main"
    /\ IF ~Has(local, "pinData")
       THEN UNCHANGED <<local, lastCall, currentPassword, lastPw>>
       ELSE IF ~verifyPin(current, local["pinData"].hash, local["pinData"].salt)
       THEN UNCHANGED <<local, lastCall, currentPassword, lastPw>>
       ELSE /\ local' = ReEncrypt(setupPin(newPinVal, pinRnd.salt), newPinVal, rnd.salt, rnd.iv)
            /\ currentPassword' = newPinVal
            /\ lastPw' = IF Has(session, "accounts") THEN newPinVal ELSE lastPw
            /\ lastCall' = Call("changePin", current, NoError, Undefined)
    /\ UNCHANGED <<session, sync, nextId, view, currentAccounts, alarm, driveBody, calls, exported>>

\* #pinProtectionToggle, when it does not open the PIN setup
PinProtectionToggle ==
  \E enabled \in BOOLEAN :
    /\ view = "main"
    /\ ~(enabled /\ ~isPinSetup)
    /\ sync' = StoreSet(sync, "pinEnabled", enabled)
    /\ UNCHANGED <<local, session, nextId, lastCall, lastPw, view, currentPassword,
                   currentAccounts, alarm, driveBody, calls, exported>>

\* showPinSetupForEnable(): the toggle is switched on without a PIN, and the
\* handler it installs is given a new PIN typed twice
PinSetupForEnable ==
  \E newPinVal \in Pins, pinRnd \in RandomDraws, rnd \in RandomDraws :
    /\ view = "main"
    /\ ~isPinSetup
    /\ local' = ReEncrypt(setupPin(newPinVal, pinRnd.salt), newPinVal, rnd.salt, rnd.iv)
    /\ sync' = StoreSet(sync, "pinEnabled", TRUE)
    /\ currentPassword' = newPinVal
    /\ lastPw' = IF Has(session, "accounts") THEN newPinVal ELSE lastPw
    /\ lastCall' = Call("pinSetupForEnable", Undefined, NoError, Undefined)
    /\ UNCHANGED <<session, nextId, view, currentAccounts, alarm, driveBody, calls, exported>>

\* #btnDeleteAllConfirm
BtnDeleteAllConfirm ==
  /\ view = "main"
  /\ wipeAllData
  /\ currentAccounts' = <<>>
  /\ currentPassword' = Null
  /\ view' = "onboarding"
  /\ lastPw' = Undefined
  /\ UNCHANGED <<sync, nextId, alarm, driveBody, calls, exported>>

\* service worker, chrome.alarms.onAlarm: the 'auto-lock' alarm fires
OnAlarm ==
  /\ alarm
  /\ session' = ClearedStore
  /\ alarm' = FALSE
  /\ UNCHANGED <<local, sync, nextId, lastCall, lastPw, view, currentPassword,
                 currentAccounts, driveBody, calls, exported>>

\* the popup and the service worker
Next ==
  \/ PopupOpen
  \/ PopupClose
  \/ BtnSkipPin
  \/ OnboardConfirmPin
  \/ LockScreenPin
  \/ BtnAddAccountSubmit
  \/ BtnDeleteConfirm
  \/ BtnImportConfirm
  \/ BtnLockNow
  \/ BtnChangePinConfirm
  \/ PinProtectionToggle
  \/ PinSetupForEnable
  \/ BtnDeleteAllConfirm
  \/ OnAlarm

Spec == Init /\ [][Next]_vars

\* ───── google-auth.js, google-drive.js: the Drive client ────────────────────
\* loginGoogle(): the token is stored before the profile is fetched
LoginGoogle ==
  \E outcome \in {"ok", "no profile", "no token"} :
    /\ view = "main"
    /\ local' = CASE outcome = "ok" ->
                       StoreSet(StoreSet(local, "googleAuthToken", "token"),
                                "googleUserProfile", "user")
                  [] outcome = "no profile" -> StoreSet(local, "googleAuthToken", "token")
                  [] OTHER -> local
    /\ UNCHANGED <<session, sync, nextId, lastCall, lastPw, view, currentPassword,
                   currentAccounts, alarm, driveBody, calls, exported>>

\* logoutGoogle()
LogoutGoogle ==
  /\ view = "main"
  /\ local' = StoreRemove(StoreRemove(local, "googleAuthToken"), "googleUserProfile")
  /\ UNCHANGED <<session, sync, nextId, lastCall, lastPw, view, currentPassword,
                 currentAccounts, alarm, driveBody, calls, exported>>

\* uploadBackupToDrive(accountsData): the file content of the request it sends
uploadBackupToDrive(accountsData) ==
  IF ~Has(local, "googleAuthToken")
  THEN driveBody
  ELSE DriveFileContent(accountsData)

\* backupToDrive()
BackupToDrive ==
  /\ view = "main"
  /\ driveBody' = IF ~isLoggedIn THEN driveBody ELSE uploadBackupToDrive(currentAccounts)
  /\ UNCHANGED <<calls, exported>>
  /\ UNCHANGED <<local, session, sync, nextId, lastCall, lastPw, view, currentPassword,
                 currentAccounts, alarm>>

\* a user without a PIN who signs in with Google and backs up to Drive
DriveNext ==
  \/ PopupOpen
  \/ PopupClose
  \/ BtnSkipPin
  \/ BtnAddAccountSubmit
  \/ BtnDeleteConfirm
  \/ OnAlarm
  \/ LoginGoogle
  \/ LogoutGoogle
  \/ BackupToDrive

DriveSpec == Init /\ [][DriveNext]_vars

\* ───── a backup file exported and imported again ───────────────────────────
\* exportBackup(exportPassword) from #btnExportConfirm or any other caller; the
\* string it returns is downloaded as a file
ExportBackupToFile ==
  \E exportPassword \in PasswordArgs, rnd \in RandomDraws :
    LET backup == exportBackup(exportPassword, rnd.salt, rnd.iv)
    IN /\ lastCall' = Call("exportBackup", exportPassword, NoError, backup)
       /\ exported' = [accounts |-> getAccounts, exportPassword |-> exportPassword,
                       backup |-> backup]
       /\ UNCHANGED <<local, session, sync, nextId, lastPw, view, currentPassword,
                      currentAccounts, alarm, driveBody, calls>>

\* importBackup(jsonString, importPassword, vaultPassword) on the exported file
ImportExported ==
  \E importPassword \in PasswordArgs, vaultPassword \in PasswordArgs :
    /\ exported.backup.isJson
    /\ importBackup(exported.backup, importPassword, vaultPassword)
    /\ Len(getAccounts') <= MaxAccounts
    /\ nextId' = nextId + (Len(getAccounts') - Len(getAccounts))
    /\ nextId' <= MaxIds + MaxAccounts
    /\ lastPw' = IF lastCall'.err = NoError THEN vaultPassword ELSE lastPw
    /\ UNCHANGED appVars

\* a user who fills a vault, exports it, empties the vault and imports the file
BackupNext ==
  \/ UnlockVault
  \/ LockVault
  \/ AddAccount
  \/ DeleteAllAccounts
  \/ ExportBackupToFile
  \/ ImportExported

BackupSpec == Init /\ [][BackupNext]_vars

\* ───── crypto.js called on its own ─────────────────────────────────────────
\* the plaintexts handed to encrypt: the empty string, a letter, a text that
\* opens with a byte order mark, a text with an unpaired surrogate, a JSON text
Plaintexts ==
  { <<>>, <<"a">>, <<ByteOrderMark, "a">>, <<"a", LoneSurrogate>>, JSONstringify(<<>>) }

\* the values handed to encrypt and decrypt as password
CryptoPasswords == {Null, EmptyStr, DefaultKeyString, Pin1, Pin2} \cup SurrogatePasswords

\* what may happen to a stored bundle or a backup file before it is decrypted
DamageKinds == {"ciphertext", "salt", "iv", "saltEncoding", "ivEncoding", "saltMissing"}

\* a bundle after the damage: another ciphertext, salt or iv in good Base64, a
\* salt or iv that is no Base64 text, or no salt at all
Damaged(bundle, kind) ==
  CASE kind = "ciphertext"   -> [bundle EXCEPT !.ciphertext.key = <<"", "">>]
    [] kind = "salt"         -> [bundle EXCEPT !.salt = IF @ = "salt1" THEN "salt2" ELSE "salt1"]
    [] kind = "iv"           -> [bundle EXCEPT !.iv = IF @ = "iv1" THEN "iv2" ELSE "iv1"]
    [] kind = "saltEncoding" -> [bundle EXCEPT !.salt = MalformedBase64]
    [] kind = "ivEncoding"   -> [bundle EXCEPT !.iv = MalformedBase64]
    [] kind = "saltMissing"  -> [bundle EXCEPT !.salt = Undefined]

\* decrypt(bundle, password): the error it throws, if any, and what it returns.
\* fromBase64 runs before the try block; crypto.subtle.decrypt runs inside it
DecryptOutcome(bundle, password) ==
  IF ~IsBase64(bundle.salt) \/ ~IsBase64(bundle.iv)
  THEN [err |-> InvalidCharacterError, ret |-> Undefined]
  ELSE IF ~DecryptOk(bundle, password)
  THEN [err |-> CryptoError, ret |-> Undefined]
  ELSE [err |-> NoError, ret |-> decrypt(bundle, password)]

\* encrypt(plaintext, password)
Encrypt ==
  \E plaintext \in Plaintexts, password \in CryptoPasswords, rnd \in RandomDraws :
    /\ lastCall' = Call("encrypt",
                        [plaintext |-> plaintext, password |-> password, damage |-> "none"],
                        NoError, encrypt(plaintext, password, rnd.salt, rnd.iv))
    /\ UNCHANGED <<local, session, nextId, lastPw, appVars>>

\* the bundle encrypt returned is damaged where it is kept
Damage ==
  \E kind \in DamageKinds :
    /\ lastCall.op = "encrypt"
    /\ lastCall' = Call("damage", [lastCall.arg EXCEPT !.damage = kind], NoError,
                        Damaged(lastCall.ret, kind))
    /\ UNCHANGED <<local, session, nextId, lastPw, appVars>>

\* decrypt(bundle, password) of the bundle at hand
Decrypt ==
  \E password \in CryptoPasswords :
    /\ lastCall.op \in {"encrypt", "damage"}
    /\ LET outcome == DecryptOutcome(lastCall.ret, password)
       IN lastCall' = Call("decrypt",
                           [ bundle     |-> lastCall.ret,
                             password   |-> password,
                             plaintext  |-> lastCall.arg.plaintext,
                             sealedWith |-> lastCall.arg.password,
                             damage     |-> lastCall.arg.damage ],
                           outcome.err, outcome.ret)
    /\ UNCHANGED <<local, session, nextId, lastPw, appVars>>

\* setupPin(pin)
SetupPin ==
  \E pin \in Pins, rnd \in RandomDraws :
    /\ lastCall' = Call("setupPin", [pin |-> pin, draw |-> rnd.salt], NoError,
                        setupPin(pin, rnd.salt))
    /\ UNCHANGED <<local, session, nextId, lastPw, appVars>>

\* verifyPin(pin, hash, salt) on the record setupPin returned
VerifyPin ==
  \E pin \in Pins \cup {EmptyStr} :
    /\ lastCall.op = "setupPin"
    /\ lastCall' = Call("verifyPin",
                        [ pin        |-> pin,
                          storedHash |-> lastCall.ret.hash,
                          storedSalt |-> lastCall.ret.salt,
                          setupWith  |-> lastCall.arg.pin ],
                        NoError,
                        verifyPin(pin, lastCall.ret.hash, lastCall.ret.salt))
    /\ UNCHANGED <<local, session, nextId, lastPw, appVars>>

CryptoNext ==
  \/ Encrypt
  \/ Damage
  \/ Decrypt
  \/ SetupPin
  \/ VerifyPin

CryptoSpec == Init /\ [][CryptoNext]_vars

(***************************************************************************)
(* core/totp.js called on its own.  The file exists in two variants, one   *)
(* over the otpauth library and one over otplib; the libraries are not     *)
(* part of the repository and are modelled by RFC 6238: the code is the    *)
(* HOTP value of the cleaned secret at counter floor(time / period), kept  *)
(* symbolic as the tuple of what it is computed from.  Date.now() is an    *)
(* input of each call.                                                     *)
(***************************************************************************)

\* the seconds whose first and last millisecond the clock is read at
ClockSeconds == 0 .. 61

\* Date.now()
ClockReadings == { 1000 * s + ms : s \in ClockSeconds, ms \in {0, 999} }

\* Math.floor(Date.now() / 1000)
unixTimeSeconds(now) == now \div 1000

\* Math.floor(a / b) for b # 0
FloorDiv(a, b) == IF b > 0 THEN a \div b ELSE (0 - a) \div (0 - b)

\* a counter that is the second itself, whatever the period
TimeCounter_seconds(now, period) == unixTimeSeconds(now)

\* the counter the library feeds to HOTP: Math.floor(now / 1000 / period);
\* dividing by 0 gives Infinity or NaN, whose 8-byte encoding is all zeros
TimeCounter(now, period) ==
  IF period = 0 THEN 0 ELSE FloorDiv(now, 1000 * period)

\* the code: HMAC, dynamic truncation and zero padding, symbolic
HOTP(secret, counter, digits, algorithm) ==
  [secret |-> secret, counter |-> counter, digits |-> digits, algorithm |-> algorithm]

InvalidSecretError == "Invalid Base32 secret key"
TotpFailedError == "Failed to generate TOTP code"

\* the library the build of totp.js imports
TotpLibraries == {"otpauth", "otplib"}

\* totp.generate() of otpauth computes with the numbers it is given; otplib's
\* generate() is taken to reject numbers that are not positive
LibraryGenerate(library, secret, digits, period, algorithm, now) ==
  IF library = "otplib" /\ (digits <= 0 \/ period <= 0)
  THEN [err |-> TotpFailedError, ret |-> Undefined]
  ELSE [err |-> NoError,
        ret |-> HOTP(secret, TimeCounter(now, period), digits, algorithm)]

\* const { digits = 6, period = 30, algorithm = 'SHA1' } = options
OptionOr(options, field, default) ==
  IF field \in DOMAIN options THEN options[field] ELSE default

\* generateTOTP(secretBase32, options) at clock reading now
generateTOTP(library, secretBase32, options, now) ==
  LET cleanSecret == toUpperCase(StripWhitespace(secretBase32))
  IN IF ~isValidSecret(cleanSecret)
     THEN [err |-> InvalidSecretError, ret |-> Undefined]
     ELSE LibraryGenerate(library, cleanSecret,
                          OptionOr(options, "digits", DefaultDigits),
                          OptionOr(options, "period", DefaultPeriod),
                          OptionOr(options, "algorithm", DefaultAlgorithm), now)

\* a remaining time counted in milliseconds
getRemainingSeconds_millis(period, now) == period - (now % period)

\* getRemainingSeconds(period) at clock reading now
getRemainingSeconds(period, now) == period - (unixTimeSeconds(now) % period)

\* secrets handed to generateTOTP: too short, lowercase, with a blank
CodeSecrets == { f.secret : f \in FormInputs }

\* options handed to generateTOTP
CodeOptions ==
  { [algorithm |-> "SHA1"] }
  \cup [algorithm : {"SHA256"}, digits : {6, 8, 0, -1}, period : {30, 60, 0, -30}]

\* Date.now() at the calls of generateTOTP: both ends of three windows of 30 s
CodeReadings == {0, 29999, 30000, 59000, 59999, 60000}

\* periods handed to getRemainingSeconds
CodePeriods == {1, 7, 30, 60}

\* await generateTOTP(secretBase32, options)
GenerateTOTP ==
  \E library \in TotpLibraries, secret \in CodeSecrets, options \in CodeOptions,
     now \in CodeReadings :
    LET out == generateTOTP(library, secret, options, now)
    IN /\ lastCall' = Call("generateTOTP",
                           [ library |-> library, secret |-> secret, options |-> options,
                             period |-> OptionOr(options, "period", DefaultPeriod),
                             digits |-> OptionOr(options, "digits", DefaultDigits),
                             now |-> now ],
                           out.err, out.ret)
       /\ UNCHANGED <<local, session, nextId, lastPw, appVars>>

\* getRemainingSeconds(period)
GetRemainingSeconds ==
  \E period \in CodePeriods, now \in ClockReadings :
    /\ lastCall' = Call("getRemainingSeconds", [period |-> period, now |-> now],
                        NoError, getRemainingSeconds(period, now))
    /\ UNCHANGED <<local, session, nextId, lastPw, appVars>>

CodeNext ==
  \/ GenerateTOTP
  \/ GetRemainingSeconds

CodeSpec == Init /\ [][CodeNext]_vars

(***************************************************************************)
(* core/uri-parser.js.  A URI is a sequence of tokens: one token per       *)
(* character of a label or value, with a percent escape (%3A) as one       *)
(* token, and one token per delimiter or fixed word of the URI.            *)
(***************************************************************************)

\* the first index of c in s, 0 when there is none: s.indexOf(c) + 1
IndexOf(s, c) ==
  IF \E i \in 1..Len(s) : s[i] = c
  THEN CHOOSE i \in 1..Len(s) : s[i] = c /\ \A j \in 1..(i - 1) : s[j] # c
  ELSE 0

\* s.split(sep)
RECURSIVE SplitOn(_, _)
SplitOn(s, sep) ==
  IF IndexOf(s, sep) = 0 THEN <<s>>
  ELSE <<SubSeq(s, 1, IndexOf(s, sep) - 1)>>
         \o SplitOn(SubSeq(s, IndexOf(s, sep) + 1, Len(s)), sep)

\* s.trim()
RECURSIVE Trim(_)
Trim(s) ==
  IF s # <<>> /\ IsWhitespace(s[1]) THEN Trim(Tail(s))
  ELSE IF s # <<>> /\ IsWhitespace(s[Len(s)]) THEN Trim(SubSeq(s, 1, Len(s) - 1))
  ELSE s

\* the escape encodeURIComponent writes for a character
PercentCode(c) ==
  CASE c = ":" -> "%3A"
    [] c = "@" -> "%40"
    [] c = " " -> "%20"
    [] c = "%" -> "%25"
    [] OTHER   -> c

\* the character decodeURIComponent reads from a token
PercentChar(t) ==
  CASE t = "%3A" -> ":"
    [] t = "%40" -> "@"
    [] t = "%20" -> " "
    [] t = "%25" -> "%"
    [] OTHER     -> t

encodeURIComponent(s) == [i \in 1..Len(s) |-> PercentCode(s[i])]

decodeURIComponent(s) == [i \in 1..Len(s) |-> PercentChar(s[i])]

\* URLSearchParams.toString() on one value: a blank becomes +
FormEncode(s) == [i \in 1..Len(s) |-> IF s[i] = " " THEN "+" ELSE PercentCode(s[i])]

\* the value url.searchParams gives back
FormDecode(s) == [i \in 1..Len(s) |-> IF s[i] = "+" THEN " " ELSE PercentChar(s[i])]

DigitChars == <<"0", "1", "2", "3", "4", "5", "6", "7", "8", "9">>

\* String(n)
RECURSIVE DecimalString(_)
DecimalString(n) ==
  IF n < 0 THEN <<"-">> \o DecimalString(0 - n)
  ELSE IF n < 10 THEN <<DigitChars[n + 1]>>
  ELSE DecimalString(n \div 10) \o <<DigitChars[(n % 10) + 1]>>

IsDigit(c) == \E d \in 1..10 : DigitChars[d] = c

DigitValue(c) == (CHOOSE d \in 1..10 : DigitChars[d] = c) - 1

\* the value of the leading digits of s, 0 when there are none
RECURSIVE LeadingNumber(_, _)
LeadingNumber(s, acc) ==
  IF s = <<>> \/ ~IsDigit(s[1]) THEN acc
  ELSE LeadingNumber(Tail(s), 10 * acc + DigitValue(s[1]))

\* parseInt(s, 10)
parseInt(s) ==
  LET t == Trim(s)
  IN IF t # <<>> /\ IsDigit(t[1])
       THEN [nan |-> FALSE, value |-> LeadingNumber(t, 0)]
     ELSE IF Len(t) > 1 /\ t[1] = "-" /\ IsDigit(t[2])
       THEN [nan |-> FALSE, value |-> 0 - LeadingNumber(Tail(t), 0)]
     ELSE [nan |-> TRUE, value |-> 0]

\* algorithm names as the characters of the URI, and back
AlgorithmChars(algorithm) ==
  CASE algorithm = "SHA1"   -> <<"S", "H", "A", "1">>
    [] algorithm = "SHA256" -> <<"S", "H", "A", "2", "5", "6">>
    [] OTHER                -> <<>>

AlgorithmOf(chars) ==
  CASE chars = <<"S", "H", "A", "1">>           -> "SHA1"
    [] chars = <<"S", "H", "A", "2", "5", "6">> -> "SHA256"
    [] OTHER                                    -> ""

\* new URLSearchParams({...}).toString()
QueryString(pairs) ==
  LET Pair1(i) == <<pairs[i][1], "=">> \o FormEncode(pairs[i][2])
      RECURSIVE Join(_)
      Join(i) == IF i > Len(pairs) THEN <<>>
                 ELSE (IF i > 1 THEN <<"&">> ELSE <<>>) \o Pair1(i) \o Join(i + 1)
  IN Join(1)

\* url.searchParams.get(name): null is the empty value here, both are falsy
ParamsGet(search, name) ==
  LET parts == SplitOn(search, "&")
      hits  == { i \in 1..Len(parts) : Len(parts[i]) >= 2 /\ parts[i][1] = name
                                        /\ parts[i][2] = "=" }
  IN IF hits = {} THEN <<>>
     ELSE LET i == CHOOSE i \in hits : \A j \in hits : i <= j
          IN FormDecode(SubSeq(parts[i], 3, Len(parts[i])))

\* generateOtpauthURI(account)
generateOtpauthURI(account) ==
  LET label == IF account.issuer # <<>>
               THEN encodeURIComponent(account.issuer) \o <<":">>
                      \o encodeURIComponent(account.account)
               ELSE encodeURIComponent(account.account)
  IN <<"otpauth:", "/", "/", "totp", "/">> \o label \o <<"?">>
       \o QueryString(<< <<"secret", account.secret>>,
                         <<"issuer", account.issuer>>,
                         <<"algorithm", AlgorithmChars(account.algorithm)>>,
                         <<"digits", DecimalString(account.digits)>>,
                         <<"period", DecimalString(account.period)>> >>)

UriNotOtpauth == "Invalid URI: must start with otpauth://"
UriUnsupportedType == "Unsupported OTP type"
UriMissingSecret == "Invalid URI: missing secret parameter"

UnknownIssuer == <<"U", "n", "k", "n", "o", "w", "n">>

\* url.hostname.toLowerCase()
HostType(host) == IF host \in {"totp", "TOTP"} THEN "totp"
                  ELSE IF host \in {"hotp", "HOTP"} THEN "hotp" ELSE host

\* parseOtpauthURI(uri)
parseOtpauthURI(uri) ==
  IF Len(uri) < 5 \/ SubSeq(uri, 1, 3) # <<"otpauth:", "/", "/">>
  THEN [err |-> UriNotOtpauth, ret |-> Undefined]
  ELSE IF HostType(uri[4]) \notin {"totp", "hotp"}
  THEN [err |-> UriUnsupportedType, ret |-> Undefined]
  ELSE
    LET rest     == SubSeq(uri, 6, Len(uri))
        q        == IndexOf(rest, "?")
        pathname == IF q = 0 THEN rest ELSE SubSeq(rest, 1, q - 1)
        search   == IF q = 0 THEN <<>> ELSE SubSeq(rest, q + 1, Len(rest))
        labelRaw == decodeURIComponent(pathname)
        colon    == IndexOf(labelRaw, ":")
        labelIssuer == IF colon = 0 THEN <<>> ELSE Trim(SubSeq(labelRaw, 1, colon - 1))
        account  == IF colon = 0 THEN labelRaw
                    ELSE Trim(SubSeq(labelRaw, colon + 1, Len(labelRaw)))
        issuer   == IF ParamsGet(search, "issuer") # <<>>
                    THEN ParamsGet(search, "issuer") ELSE labelIssuer
        domain   == IF Len(SplitOn(account, "@")) >= 2 THEN SplitOn(account, "@")[2]
                    ELSE <<>>
        secret   == ParamsGet(search, "secret")
        algorithm == IF ParamsGet(search, "algorithm") # <<>>
                     THEN ParamsGet(search, "algorithm") ELSE AlgorithmChars(DefaultAlgorithm)
        digits   == parseInt(IF ParamsGet(search, "digits") # <<>>
                             THEN ParamsGet(search, "digits")
                             ELSE DecimalString(DefaultDigits))
        period   == parseInt(IF ParamsGet(search, "period") # <<>>
                             THEN ParamsGet(search, "period")
                             ELSE DecimalString(DefaultPeriod))
    IN IF secret = <<>>
       THEN [err |-> UriMissingSecret, ret |-> Undefined]
       ELSE [err |-> NoError,
             ret |-> [ type      |-> HostType(uri[4]),
                       issuer    |-> IF issuer # <<>> THEN issuer
                                     ELSE IF domain # <<>> THEN domain ELSE UnknownIssuer,
                       account   |-> account,
                       secret    |-> toUpperCase(StripWhitespace(secret)),
                       algorithm |-> AlgorithmOf(toUpperCase(algorithm)),
                       digits    |-> IF digits.nan THEN DefaultDigits ELSE digits.value,
                       period    |-> IF period.nan THEN DefaultPeriod ELSE period.value ]]

\* accounts handed to generateOtpauthURI: issuers and labels with and without
\* ':' and '@', a normalized secret
UriAccounts ==
  [ issuer    : {<<>>, <<"G">>, <<"G", ":", "x">>},
    account   : {<<>>, <<"a">>, <<"a", ":", "b">>, <<"a", "@", "b">>, <<"a", " ", "b">>},
    secret    : {<<"A", "B", "A", "B", "A", "B", "2", "7">>},
    algorithm : {"SHA1", "SHA256"},
    digits    : {6, 8},
    period    : {30, 60} ]

\* URIs of other origin: another scheme, another type, no secret, a bare label
\* with words for digits, an HOTP URI in capitals with lowercase values
ForeignURIs ==
  { <<"https:", "/", "/", "totp", "/", "a">>,
    <<"otpauth:", "/", "/", "yubi", "/", "a", "?", "secret", "=", "A">>,
    <<"otpauth:", "/", "/", "totp", "/", "a", "?", "issuer", "=", "G">>,
    <<"otpauth:", "/", "/", "totp", "/", "a", "?", "secret", "=", "a", "+", "b",
      "&", "digits", "=", "x">>,
    <<"otpauth:", "/", "/", "HOTP", "/", "G", ":", " ", "a", "%40", "b", "?",
      "secret", "=", "a", "&", "period", "=", "-", "1", "&", "digits", "=", "0">> }

\* generateOtpauthURI(account)
GenerateOtpauthURI ==
  \E account \in UriAccounts :
    /\ lastCall' = Call("generateOtpauthURI", account, NoError, generateOtpauthURI(account))
    /\ UNCHANGED <<local, session, nextId, lastPw, appVars>>

\* parseOtpauthURI(uri) on the URI generateOtpauthURI returned
ParseGenerated ==
  /\ lastCall.op = "generateOtpauthURI"
  /\ LET out == parseOtpauthURI(lastCall.ret)
     IN lastCall' = Call("parseOtpauthURI",
                         [uri |-> lastCall.ret, generatedFrom |-> <<lastCall.arg>>],
                         out.err, out.ret)
  /\ UNCHANGED <<local, session, nextId, lastPw, appVars>>

\* parseOtpauthURI(uri) on a URI of other origin
ParseForeign ==
  \E uri \in ForeignURIs :
    LET out == parseOtpauthURI(uri)
    IN /\ lastCall' = Call("parseOtpauthURI", [uri |-> uri, generatedFrom |-> <<>>],
                           out.err, out.ret)
       /\ UNCHANGED <<local, session, nextId, lastPw, appVars>>

UriNext ==
  \/ GenerateOtpauthURI
  \/ ParseGenerated
  \/ ParseForeign

UriSpec == Init /\ [][UriNext]_vars

\* ───── addAccount in two pages at once ──────────────────────────────────────
\* addAccount is an async function: between its awaits the other page runs, and
\* both pages work on the same chrome.storage areas. Each step below runs from
\* one storage callback to the next storage request.
SetCall(c, call) == [calls EXCEPT ![c] = call]

\* #btnScanQR: chrome.tabs.create opens the scanner tab
BtnScanQR ==
  /\ view = "main"
  /\ calls["scanner"].pc = "closed"
  /\ calls' = SetCall("scanner", NoCall("idle"))
  /\ UNCHANGED <<local, session, sync, nextId, lastCall, lastPw, view, currentPassword,
                 currentAccounts, alarm, driveBody, exported>>

\* #btnAddAccountSubmit up to its call of addAccount(form, currentPassword)
SubmitCallsAdd ==
  \E form \in FormInputs :
    /\ view = "main"
    /\ calls["popup"].pc = "idle"
    /\ isValidSecret(form.secret)
    /\ form.account # <<>> \/ form.issuer # ""
    /\ calls' = SetCall("popup", [NoCall("getAccounts") EXCEPT
                                    !.accountData = form,
                                    !.password = currentPassword])
    /\ UNCHANGED <<local, session, sync, nextId, lastCall, lastPw, view, currentPassword,
                   currentAccounts, alarm, driveBody, exported>>

\* onQRFound up to its call of addAccount(parsed, defaultKey)
OnQRFound ==
  \E parsed \in AccountInputs :
    /\ calls["scanner"].pc = "idle"
    /\ calls' = SetCall("scanner", [NoCall("getAccounts") EXCEPT
                                      !.accountData = parsed,
                                      !.password = DefaultKeyString])
    /\ UNCHANGED <<local, session, sync, nextId, lastCall, lastPw, view, currentPassword,
                   currentAccounts, alarm, driveBody, exported>>

\* addAccount: const accounts = await getAccounts()
AddGetAccounts(c) ==
  /\ calls[c].pc = "getAccounts"
  /\ calls' = SetCall(c, [calls[c] EXCEPT !.pc = "setSession", !.accounts = getAccounts])
  /\ UNCHANGED <<local, session, sync, nextId, lastCall, lastPw, view, currentPassword,
                 currentAccounts, alarm, driveBody, exported>>

\* addAccount: the account is built and pushed; await setSessionAccounts(accounts)
AddSetSession(c) ==
  LET account == NewAccount(generateId(1), calls[c].accountData)
      accounts == Append(calls[c].accounts, account)
  IN /\ calls[c].pc = "setSession"
     /\ session' = StoreSet(session, "accounts", accounts)
     /\ nextId' = nextId + 1
     /\ calls' = SetCall(c, [calls[c] EXCEPT !.pc = "saveGet", !.accounts = accounts,
                                             !.account = account])
     /\ UNCHANGED <<local, sync, lastCall, lastPw, view, currentPassword,
                    currentAccounts, alarm, driveBody, exported>>

\* saveVault: const accounts = await getSessionAccounts()
SaveGetSession(c) ==
  /\ calls[c].pc = "saveGet"
  /\ calls' = SetCall(c, [calls[c] EXCEPT
                            !.pc = "saveSet",
                            !.hasAccounts = isUnlocked,
                            !.accounts = getAccounts])
  /\ UNCHANGED <<local, session, sync, nextId, lastCall, lastPw, view, currentPassword,
                 currentAccounts, alarm, driveBody, exported>>

\* saveVault: encrypt and setLocalItem('vault', encrypted); addAccount returns
SaveSetLocal(c) ==
  \E rnd \in RandomDraws :
    /\ calls[c].pc = "saveSet"
    /\ local' = saveVault(calls[c].hasAccounts, calls[c].accounts,
                          calls[c].password, rnd.salt, rnd.iv)
    /\ lastPw' = calls[c].password
    /\ lastCall' = Call("addAccount", calls[c].accountData, NoError, calls[c].account)
    /\ calls' = SetCall(c, [calls[c] EXCEPT !.pc = "returned"])
    /\ UNCHANGED <<session, sync, nextId, view, currentPassword,
                   currentAccounts, alarm, driveBody, exported>>

\* #btnAddAccountSubmit after the call: currentAccounts = await getAccounts()
SubmitRenders ==
  /\ calls["popup"].pc = "returned"
  /\ calls' = SetCall("popup", [calls["popup"] EXCEPT !.pc = "rendered"])
  /\ currentAccounts' = getAccounts
  /\ alarm' = resetAutoLock(autoLockMinutes)
  /\ UNCHANGED <<local, session, sync, nextId, lastCall, lastPw, view, currentPassword,
                 driveBody, exported>>

\* a user without a PIN who adds one account in the popup and scans one in the
\* scanner tab
RaceNext ==
  \/ PopupOpen
  \/ BtnSkipPin
  \/ BtnScanQR
  \/ SubmitCallsAdd
  \/ OnQRFound
  \/ \E c \in Contexts : AddGetAccounts(c)
  \/ \E c \in Contexts : AddSetSession(c)
  \/ \E c \in Contexts : SaveGetSession(c)
  \/ \E c \in Contexts : SaveSetLocal(c)
  \/ SubmitRenders

RaceSpec == Init /\ [][RaceNext]_vars

\* ───── addAccount while the vault is locked under it ────────────────────────
\* a user with a PIN who scans a code in the scanner tab while the popup locks
\* the vault or the 'auto-lock' alarm fires
LockRaceNext ==
  \/ PopupOpen
  \/ PopupClose
  \/ OnboardConfirmPin
  \/ LockScreenPin
  \/ BtnLockNow
  \/ BtnScanQR
  \/ OnQRFound
  \/ AddGetAccounts("scanner")
  \/ AddSetSession("scanner")
  \/ SaveGetSession("scanner")
  \/ SaveSetLocal("scanner")
  \/ OnAlarm

LockRaceSpec == Init /\ [][LockRaceNext]_vars

\* ───── popup/main.js, service-worker.js: the auto-lock setting ─────────────────
\* the choices of #autoLockSelect; 0 is "never"
AutoLockOptions == {0, 1, 5}

\* #autoLockSelect change: prefs.autoLockMinutes = parseInt(value), setPreference,
\* setupAutoLock(); the item is shown while prefs.pinEnabled
AutoLockSelect ==
  \E mins \in AutoLockOptions :
    /\ view = "main"
    /\ prefsPinEnabled
    /\ sync' = StoreSet(sync, "autoLockMinutes", mins)
    /\ alarm' = setupAutoLock(mins)
    /\ UNCHANGED <<local, session, nextId, lastCall, lastPw, view, currentPassword,
                   currentAccounts, driveBody, calls, exported>>

\* a PIN user's popup, the auto-lock setting and the service worker
AutoLockNext ==
  \/ PopupOpen
  \/ PopupClose
  \/ OnboardConfirmPin
  \/ LockScreenPin
  \/ BtnAddAccountSubmit
  \/ BtnLockNow
  \/ AutoLockSelect
  \/ OnAlarm

\* chrome.alarms delivers a pending alarm: the listener of the service worker
\* runs once its delay has passed, whatever the popup does
AutoLockSpec == Init /\ [][AutoLockNext]_vars /\ WF_vars(OnAlarm)

\* ───── properties of the vault engine ──────────────────────────────────────
\* the account list inside the durable blob, read with the key it was sealed under
VaultAccounts == JSONparse(local["vault"].ciphertext.pt)

\* the (secret, account) pair of the dedup rule
Pair(a) == <<a.secret, a.account>>

\* number of entries of list with the pair pr
CountPair(list, pr) == Cardinality({ i \in 1..Len(list) : Pair(list[i]) = pr })

\* C1: write-through.  Whenever the session holds an account list and the last
\* completed mutating operation was given password lastPw (wipeAllData, which
\* takes no password, resets it), the durable vault blob decrypts under lastPw
\* to exactly the session list.
C1_WriteThrough ==
  (isUnlocked /\ lastPw # Undefined) =>
     /\ Has(local, "vault")
     /\ DecryptOk(local["vault"], lastPw)
     /\ JSONparse(decrypt(local["vault"], lastPw)) = session["accounts"]

C1_Witness ==
  /\ isUnlocked
  /\ lastPw = Pin1
  /\ Len(getAccounts) >= 2
  /\ lastCall.op = "updateAccount"
  /\ lastCall.err = NoError

\* C2: unlockVault with a password that does not decrypt the existing durable
\* vault throws the CryptoEngine error and leaves the session store and the
\* local store exactly as they were.
C2_FailedUnlockChangesNothing ==
  [][ ( /\ lastCall'.op = "unlockVault"
        /\ Has(local, "vault")
        /\ ~DecryptOk(local["vault"], lastCall'.arg.password) )
      => ( /\ lastCall'.err = CryptoError
           /\ session' = session
           /\ local' = local ) ]_vars

C2_Witness ==
  /\ lastCall.op = "unlockVault"
  /\ lastCall.err = CryptoError
  /\ Has(local, "vault")
  /\ ~isUnlocked

\* C3: unlockVault(p), for any p, when no durable vault blob exists returns the
\* empty list and leaves the session account list the empty array (Unlocked).
C3_FirstRunUnlock ==
  [][ (lastCall'.op = "unlockVault" /\ ~Has(local, "vault"))
      => ( /\ lastCall'.err = NoError
           /\ lastCall'.ret = <<>>
           /\ isUnlocked'
           /\ session'["accounts"] = <<>> ) ]_vars

C3_Witness ==
  /\ lastCall.op = "unlockVault"
  /\ lastCall.arg.password = Null
  /\ ~Has(local, "vault")
  /\ isUnlocked
  /\ session["accounts"] = <<>>

\* C4: lockVault() from any state removes the session account list and leaves
\* the local store (vault blob, PIN record) exactly as it was.
C4_LockFrame ==
  [][ lastCall'.op = "lockVault" => (~isUnlocked' /\ local' = local) ]_vars

C4_Witness ==
  /\ lastCall.op = "lockVault"
  /\ lastCall.arg.had
  /\ Len(lastCall.arg.accounts) >= 1
  /\ ~isUnlocked
  /\ Has(local, "vault")

\* C5: lock/unlock round trip.  lockVault() on an unlocked vault followed by
\* unlockVault(pw), pw the password of the mutating operations before it,
\* returns and places in the session exactly the list held before the lock.
C5_LockUnlockRoundTrip ==
  [][ ( /\ lastCall.op = "lockVault"
        /\ lastCall.arg.had
        /\ lastCall'.op = "unlockVault"
        /\ (lastPw # Undefined => lastCall'.arg.password = lastPw) )
      => ( /\ lastCall'.err = NoError
           /\ lastCall'.ret = lastCall.arg.accounts
           /\ isUnlocked'
           /\ session'["accounts"] = lastCall.arg.accounts ) ]_vars

C5_Witness ==
  /\ lastCall.op = "unlockVault"
  /\ lastCall.err = NoError
  /\ lastCall.arg.afterLock
  /\ lastCall.arg.password = Pin1
  /\ lastPw = Pin1
  /\ Len(lastCall.ret) >= 2
  /\ lastCall.ret[1].id > lastCall.ret[2].id

\* C6: no plaintext at rest.  The local store holds nothing but the vault
\* blob, the PIN record and the Google sign-in; the value under 'vault' is
\* always the bundle encrypt returns, with its four fields salt, iv, ciphertext
\* and version; the PIN record holds a hash and its salt.
C6_NoPlaintextAtRest ==
  /\ DOMAIN local \subseteq LocalKeys
  /\ Has(local, "vault") => IsBundle(local["vault"])
  /\ Has(local, "pinData") => DOMAIN local["pinData"] = {"hash", "salt"}

C6_Witness ==
  /\ lastCall.op = "changePin"
  /\ Has(local, "pinData")
  /\ Has(local, "vault")
  /\ DecryptOk(local["vault"], Pin2)
  /\ Len(VaultAccounts) >= 1

\* the account array that the last Drive upload carried in clear
DrivePlainAccounts ==
  IF Len(driveBody) > DriveHeaderTokens /\ driveBody[DriveHeaderTokens] = "accounts"
  THEN JSONparse(SubSeq(driveBody, DriveHeaderTokens + 1, Len(driveBody) - 1))
  ELSE <<>>

\* C7: every file content sent to the Drive endpoint carries the account list
\* in encrypted form only: no account, and so no secret, travels in clear.
C7_DriveBackupEncrypted == DrivePlainAccounts = <<>>

\* C8: account ids are unique within the vault: no two accounts of the session
\* list have the same id.
C8_UniqueIds ==
  \A i, j \in 1..Len(getAccounts) :
     i # j => getAccounts[i].id # getAccounts[j].id

\* C9: every account of the session list and of the decrypted durable vault
\* has a normalized secret (uppercase, no whitespace).
C9_SecretsNormalized ==
  /\ \A i \in 1..Len(getAccounts) : IsNormalized(getAccounts[i].secret)
  /\ Has(local, "vault") =>
       \A i \in 1..Len(VaultAccounts) : IsNormalized(VaultAccounts[i].secret)

\* C10: dedup merge of importBackup and restoreFromDriveBackup.  An incoming
\* account with the (secret, account) pair of an existing account is not
\* imported and the existing entries stay, unmodified and not duplicated; an
\* incoming account whose pair differs from every existing pair is imported;
\* `imported` counts exactly the latter.
C10_DedupByPair ==
  [][ (lastCall'.op \in {"importBackup", "restoreFromDriveBackup"} /\ lastCall'.err = NoError)
      => LET existing == getAccounts
             incoming == IF lastCall'.op = "importBackup"
                         THEN JSONparse(decrypt(lastCall'.arg.backup.encrypted,
                                                lastCall'.arg.importPassword))
                         ELSE lastCall'.arg
             merged   == session'["accounts"]
             IsDup(a) == \E e \in 1..Len(existing) : Pair(existing[e]) = Pair(a)
         IN /\ Len(merged) >= Len(existing)
            /\ SubSeq(merged, 1, Len(existing)) = existing
            /\ \A i \in 1..Len(incoming) :
                 IF IsDup(incoming[i])
                 THEN CountPair(merged, Pair(incoming[i])) = CountPair(existing, Pair(incoming[i]))
                 ELSE \E k \in (Len(existing)+1)..Len(merged) : Pair(merged[k]) = Pair(incoming[i])
            /\ lastCall'.ret.imported =
                 Cardinality({ i \in 1..Len(incoming) : ~IsDup(incoming[i]) }) ]_vars

\* C11: a successful importBackup keeps the accounts it found as a prefix of
\* the merged list, unchanged and in order, appends every incoming account whose
\* dedup key is not among theirs, in backup order, under an id that is neither
\* an id of the list nor the id the backup gave it, and returns imported = the
\* number of appended accounts and total = the new length.
C11_ImportMerge ==
  [][ (lastCall'.op = "importBackup" /\ lastCall'.err = NoError)
      => LET existing  == getAccounts
             merged    == session'["accounts"]
             Survives(a) == \A e \in 1..Len(existing) : DedupKey(existing[e]) # DedupKey(a)
             incoming  == JSONparse(decrypt(lastCall'.arg.backup.encrypted,
                                            lastCall'.arg.importPassword))
             survivors == SelectSeq(incoming, Survives)
             n         == Len(existing)
         IN /\ Len(merged) = n + Len(survivors)
            /\ SubSeq(merged, 1, n) = existing
            /\ \A k \in 1..Len(survivors) :
                 /\ merged[n + k].account = survivors[k].account
                 /\ merged[n + k].secret = survivors[k].secret
                 /\ merged[n + k].id # survivors[k].id
                 /\ \A j \in 1..Len(merged) : j # n + k => merged[j].id # merged[n + k].id
            /\ lastCall'.ret.imported = Len(survivors)
            /\ lastCall'.ret.total = Len(merged) ]_vars

C11_Witness ==
  /\ lastCall.op = "importBackup"
  /\ lastCall.err = NoError
  /\ lastCall.ret.imported = 1
  /\ lastCall.ret.total = 2
  /\ Len(JSONparse(decrypt(lastCall.arg.backup.encrypted, lastCall.arg.importPassword))) = 2

\* the errors importBackup raises
ImportErrors == {NotJsonError, NotBackupError, CryptoError, CorruptedError}

\* the payload of a backup is rejected: not JSON, the tag of another
\* application, not decryptable under importPassword, or not an array
ImportRejects(backup, importPassword) ==
  \/ ~backup.isJson
  \/ backup.app # AppTag
  \/ backup.encrypted.ciphertext.key # <<effectivePassword(importPassword), backup.encrypted.salt>>
  \/ decrypt(backup.encrypted, importPassword)[1] # "["

\* C12: a failed import is aborted entirely.  importBackup on a payload that
\* is rejected raises one of its errors and changes neither the session store
\* nor the local store.
C12_FailedImportAborts ==
  [][ ( /\ lastCall'.op = "importBackup"
        /\ ImportRejects(lastCall'.arg.backup, lastCall'.arg.importPassword) )
      => ( /\ lastCall'.err \in ImportErrors
           /\ session' = session
           /\ local' = local ) ]_vars

C12_Witness ==
  /\ lastCall.op = "importBackup"
  /\ lastCall.err = CorruptedError
  /\ isUnlocked
  /\ Len(getAccounts) >= 1
  /\ Has(local, "vault")

\* the id names no account of the session list
UnknownId(id) == \A i \in 1..Len(getAccounts) : getAccounts[i].id # id

\* C13: updateAccount with an id that is not in the session list fails with
\* the not-found error and writes nothing: session store and local store stay
\* as they were.
C13_UpdateUnknownId ==
  [][ (lastCall'.op = "updateAccount" /\ UnknownId(lastCall'.arg))
      => ( /\ lastCall'.err = NotFoundError
           /\ session' = session
           /\ local' = local ) ]_vars

C13_Witness ==
  /\ lastCall.op = "updateAccount"
  /\ lastCall.err = NotFoundError
  /\ isUnlocked
  /\ Len(getAccounts) >= 1
  /\ UnknownId(lastCall.arg)

\* C14: deleteAccount with an id that is not in the session list reports the
\* not-found error and is a no-op: session store and local store stay as they
\* were.
C14_DeleteUnknownId ==
  [][ (lastCall'.op = "deleteAccount" /\ UnknownId(lastCall'.arg))
      => ( /\ lastCall'.err = NotFoundError
           /\ session' = session
           /\ local' = local ) ]_vars

\* C15: reorderAccounts never fails; the session list it leaves is the
\* sequence of the current accounts that orderedIds names, in the order of
\* orderedIds, every id that names no current account being skipped, and that
\* list is what the vault blob then holds under the given password.
C15_ReorderLenient ==
  [][ lastCall'.op = "reorderAccounts"
      => LET accounts == getAccounts
             Known(id) == ~UnknownId(id)
             known     == SelectSeq(lastCall'.arg, Known)
             result    == session'["accounts"]
         IN /\ lastCall'.err = NoError
            /\ Len(result) = Len(known)
            /\ \A k \in 1..Len(known) :
                 /\ result[k].id = known[k]
                 /\ \E i \in 1..Len(accounts) : accounts[i] = result[k]
            /\ Has(local', "vault")
            /\ DecryptOk(local'["vault"], lastPw')
            /\ JSONparse(decrypt(local'["vault"], lastPw')) = result ]_vars

\* C16: wipeAllData() erases all durable and session state: after it there is no
\* vault blob, no PIN record, no session account list and no stored preference
\* (the PIN-enabled flag included), so the application is in first-time setup
\* with default preferences. The popup calls it from #btnDeleteAllConfirm, its
\* only step from the main view to the onboarding.
C16_WipeErasesAll ==
  [][ (lastCall'.op = "wipeAllData" /\ view = "main" /\ view' = "onboarding")
      => /\ ~Has(local', "vault")
         /\ ~Has(local', "pinData")
         /\ ~Has(session', "accounts")
         /\ sync' = ClearedStore
         /\ isFirstTimeSetup' ]_vars


\* C17: the durable vault blob is created by the first successful unlock on
\* empty state: when unlockVault succeeds with no 'vault' in local storage, a
\* 'vault' blob exists afterwards and isFirstTimeSetup() is false, with no
\* mutating operation called.
C17_FirstUnlockCreatesVault ==
  [][ (lastCall'.op = "unlockVault" /\ lastCall'.err = NoError /\ ~Has(local, "vault"))
      => (Has(local', "vault") /\ ~isFirstTimeSetup') ]_vars

\* C18: mutating operations are effectively serialized.  When addAccount from
\* the popup and addAccount from the scanner tab were in flight together and
\* both have returned, the session list and the durable vault both hold the
\* account of each call: no update is lost.
Returned(c) == calls[c].pc \in {"returned", "rendered"}

Holds(list, account) == \E i \in 1..Len(list) : list[i] = account

C19_NoCopyWhileLocked == ~isUnlocked => currentAccounts = <<>>

\* C20: exportBackup(exportPassword) is read-only and self-consistent.  It
\* changes neither the session list nor the durable vault; its accountCount is
\* the length of the session list, its app tag is the application tag, and its
\* encrypted field decrypts under exportPassword to exactly the session list,
\* whatever the vault password is.
C20_ExportReadOnly ==
  [][ lastCall'.op = "exportBackup"
      => LET backup == lastCall'.ret
             exportPassword == lastCall'.arg
         IN /\ session' = session
            /\ local' = local
            /\ backup.accountCount = Len(getAccounts)
            /\ backup.app = AppTag
            /\ DecryptOk(backup.encrypted, exportPassword)
            /\ JSONparse(decrypt(backup.encrypted, exportPassword)) = getAccounts ]_vars

\* an export under Pin1 of a non-empty list whose vault is sealed under the
\* default key
C20_Witness ==
  /\ lastCall.op = "exportBackup"
  /\ lastCall.arg = Pin1
  /\ lastPw = Null
  /\ Len(getAccounts) >= 1
  /\ lastCall.ret.accountCount = Len(getAccounts)
  /\ Has(local, "vault")
  /\ ~DecryptOk(local["vault"], Pin1)

C22_AddAppendsOne ==
  [][ (lastCall'.op = "addAccount" /\ isUnlocked)
      => LET data == lastCall'.arg
             previous == getAccounts
             after == getAccounts'
             added == after[Len(after)]
         IN /\ lastCall'.err = NoError
            /\ Len(after) = Len(previous) + 1
            /\ SubSeq(after, 1, Len(previous)) = previous
            /\ added = lastCall'.ret
            /\ added.id >= 1
            /\ \A i \in 1..Len(previous) : previous[i].id # added.id
            /\ added.secret = toUpperCase(StripWhitespace(data.secret))
            /\ added.account = data.account
            /\ "algorithm" \notin DOMAIN data => added.algorithm = "SHA1"
            /\ "digits" \notin DOMAIN data => added.digits = 6
            /\ "period" \notin DOMAIN data => added.period = 30 ]_vars

\* a second account was added from data with a blank and a lowercase letter in
\* the secret and without options
C22_Witness ==
  /\ lastCall.op = "addAccount"
  /\ lastCall.err = NoError
  /\ "digits" \notin DOMAIN lastCall.arg
  /\ lastCall.arg.secret = <<"a", " ", "A">>
  /\ Len(getAccounts) = 2
  /\ getAccounts[2] = lastCall.ret
  /\ getAccounts[2].secret = <<"A", "A">>
  /\ getAccounts[2].period = 30

\* C23: encryption round trip.  For every plaintext p and every password w,
\* decrypt(encrypt(p, w), w) returns p.
C23_EncryptRoundTrip ==
  [][ ( /\ lastCall'.op = "decrypt"
        /\ lastCall'.arg.damage = "none"
        /\ lastCall'.arg.password = lastCall'.arg.sealedWith )
      => ( /\ lastCall'.err = NoError
           /\ lastCall'.ret = lastCall'.arg.plaintext ) ]_vars

\* C24: wrong-password rejection.  For every plaintext p and every two password
\* arguments w1 # w2, null, the empty string and the default-key string
\* included, decrypt(encrypt(p, w1), w2) fails with the authentication error and
\* returns no plaintext.
C24_WrongPasswordRejected ==
  [][ ( /\ lastCall'.op = "decrypt"
        /\ lastCall'.arg.damage = "none"
        /\ lastCall'.arg.password # lastCall'.arg.sealedWith )
      => ( /\ lastCall'.err = CryptoError
           /\ lastCall'.ret = Undefined ) ]_vars

\* C25: decrypt fails with one single generic error for every failure cause.
\* A wrong password, a tampered ciphertext and a malformed bundle (a salt or iv
\* in a bad encoding, or missing) all give the same error value.
C25_OneGenericError ==
  [][ (lastCall'.op = "decrypt" /\ lastCall'.err # NoError)
      => lastCall'.err = CryptoError ]_vars

\* C26: PIN verification.  verifyPin(pin, h, s) is true when {hash: h, salt: s}
\* is what setupPin(pin) returned and false for every other PIN; setupPin
\* returns the salt it drew in that call, with the hash of the PIN under it.
C26_PinVerification ==
  [][ /\ lastCall'.op = "verifyPin"
        => lastCall'.ret = (lastCall'.arg.pin = lastCall'.arg.setupWith)
      /\ lastCall'.op = "setupPin"
        => /\ lastCall'.ret.salt = lastCall'.arg.draw
           /\ verifyPin(lastCall'.arg.pin, lastCall'.ret.hash, lastCall'.ret.salt) ]_vars

\* setupPin("1234"), then verifyPin("4321", hash, salt) returned false
C26_Witness ==
  /\ lastCall.op = "verifyPin"
  /\ lastCall.arg.setupWith = Pin1
  /\ lastCall.arg.pin = Pin2
  /\ lastCall.ret = FALSE

C28_RemainingSeconds ==
  (lastCall.op = "getRemainingSeconds") =>
    LET period == lastCall.arg.period
        t      == lastCall.arg.now \div 1000
    IN /\ lastCall.ret = period - (t % period)
       /\ lastCall.ret \in 1..period
       /\ (lastCall.ret = period) <=> (t % period = 0)
       /\ (t % period = period - 1) => lastCall.ret = 1
       /\ (period = 30 /\ t = 60) => lastCall.ret = 30
       /\ (period = 30 /\ t = 59) => lastCall.ret = 1

\* getRemainingSeconds(30) returned 1 in the last millisecond of second 59
C28_Witness ==
  /\ lastCall.op = "getRemainingSeconds"
  /\ lastCall.arg.period = 30
  /\ lastCall.arg.now = 59999
  /\ lastCall.ret = 1

\* C29: code generation rejects non-positive parameters.  A call of
\* generateTOTP with digits <= 0 or period <= 0 ends in an error and returns
\* no code.
C29_RejectsNonPositive ==
  ( /\ lastCall.op = "generateTOTP"
    /\ (lastCall.arg.digits <= 0 \/ lastCall.arg.period <= 0) )
  => lastCall.err # NoError

\* C30: URI round trip.  parseOtpauthURI(generateOtpauthURI(a)) succeeds and
\* returns the issuer, account, secret, algorithm, digits and period of a, for
\* every valid account a: any issuer, the empty one included, and any label,
\* those containing ':' or '@' included.
C30_UriRoundTrip ==
  ( /\ lastCall.op = "parseOtpauthURI"
    /\ lastCall.arg.generatedFrom # <<>> )
  => /\ lastCall.err = NoError
     /\ LET a == lastCall.arg.generatedFrom[1]
        IN /\ lastCall.ret.issuer = a.issuer
           /\ lastCall.ret.account = a.account
           /\ lastCall.ret.secret = a.secret
           /\ lastCall.ret.algorithm = a.algorithm
           /\ lastCall.ret.digits = a.digits
           /\ lastCall.ret.period = a.period

\* C31: adding never loses accounts.  After addAccount has completed, from the
\* popup's add form in any state the popup can be in, the durable vault holds
\* every account it held before the call, and the new one.
C31_AddLosesNothing ==
  [][ ( /\ nextId' = nextId + 1
        /\ lastCall'.op = "addAccount"
        /\ Has(local, "vault") )
      => ( /\ Has(local', "vault")
           /\ Holds(VaultAccounts', lastCall'.ret)
           /\ \A i \in 1..Len(VaultAccounts) : Holds(VaultAccounts', VaultAccounts[i]) ) ]_vars

\* C32: the vault stays openable.  Whenever a durable vault blob exists, it
\* decrypts under the key the next unlock will use: the PIN the stored PIN
\* record verifies when a PIN record exists and PIN protection is enabled, the
\* default key otherwise.
C32_VaultOpenable ==
  Has(local, "vault") =>
    IF isPinSetup /\ isPinEnabled
    THEN \E pin \in Pins :
           /\ verifyPin(pin, local["pinData"].hash, local["pinData"].salt)
           /\ DecryptOk(local["vault"], pin)
    ELSE DecryptOk(local["vault"], Null)

C35_UnlockOnlyByUnlock ==
  [][ ~isUnlocked
      => ( /\ isUnlocked' => (lastCall'.op = "unlockVault" /\ lastCall'.err = NoError)
           /\ local' # local => lastCall'.op = "wipeAllData" ) ]_vars

\* C36: PIN change is all-or-nothing.  When the change-PIN handler has reported
\* success, the stored PIN record verifies the new PIN and the durable vault
\* blob, if there is one, decrypts under the new PIN.
C36_PinChangeAtomic ==
  [][ (lastCall'.op = "changePin" /\ lastCall' # lastCall)
      => ( /\ Has(local', "pinData")
           /\ verifyPin(currentPassword', local'["pinData"].hash, local'["pinData"].salt)
           /\ Has(local', "vault") => DecryptOk(local'["vault"], currentPassword') ) ]_vars


\* C37: once an 'auto-lock' alarm is pending it fires and the vault is Locked,
\* and a Locked vault stays Locked until a successful unlockVault
C37_AutoLockLocks ==
  /\ (alarm ~> ~isUnlocked)
  /\ [][ (~isUnlocked /\ isUnlocked')
           => (lastCall'.op = "unlockVault" /\ lastCall'.err = NoError) ]_vars

\* C38: while the stored autoLockMinutes is 0 no 'auto-lock' alarm fires
C38_NeverMeansNever ==
  [][ (Has(sync, "autoLockMinutes") /\ autoLockMinutes = 0) => ~(alarm /\ ~alarm') ]_vars


\* no two entries of list have the same (secret, account) pair
NoSharedPair(list) ==
  \A i, j \in 1..Len(list) : i # j => Pair(list[i]) # Pair(list[j])

\* C39: a successful importBackup or restoreFromDriveBackup on a list in which
\* no two accounts share their (secret, account) pair leaves a list in which
\* no two accounts share it
C39_MergeNoDuplicates ==
  [][ ( /\ lastCall'.op \in {"importBackup", "restoreFromDriveBackup"}
        /\ lastCall'.err = NoError
        /\ NoSharedPair(getAccounts) )
      => NoSharedPair(getAccounts') ]_vars


\* the first position of list whose account has the id
FirstWithId(list, id) ==
  CHOOSE i \in 1..Len(list) : list[i].id = id /\ \A j \in 1..(i-1) : list[j].id # id

\* C40: a successful updateAccount keeps the length of the list and the id of
\* its target at the target's position and changes no other entry; deleteAccount
\* with an id of the list leaves exactly the entries with another id, in
\* their order
C40_TargetOnly ==
  [][ /\ (lastCall'.op = "updateAccount" /\ lastCall'.err = NoError)
           => LET id == lastCall'.arg
                  index == FirstWithId(getAccounts, id)
              IN /\ ~UnknownId(id)
                 /\ Len(getAccounts') = Len(getAccounts)
                 /\ getAccounts'[index].id = id
                 /\ lastCall'.ret = getAccounts'[index]
                 /\ \A i \in 1..Len(getAccounts) :
                      i # index => getAccounts'[i] = getAccounts[i]
      /\ (lastCall'.op = "deleteAccount" /\ ~UnknownId(lastCall'.arg))
           => getAccounts' = SelectSeq(getAccounts, LAMBDA a : a.id # lastCall'.arg) ]_vars

\* an update of the second of two accounts has returned it with its id
C40_Witness ==
  /\ lastCall.op = "updateAccount"
  /\ lastCall.err = NoError
  /\ Len(getAccounts) = 2
  /\ lastCall.arg = getAccounts[2].id
  /\ getAccounts[1].id # lastCall.arg
  /\ lastCall.ret = getAccounts[2]

====
